---------------------------- MODULE Spec2Model ----------------------------
(***************************************************************************)
(* Review calculator: the TTL cache (ServerCache), the request throttler   *)
(* (RequestThrottler), the review-adjustment optimizer                     *)
(* (calculateReviewsToRemove, both revisions found in the sources) and the *)
(* cascading business search (performCascadingSearch).                     *)
(*                                                                         *)
(* Time is Date.now() in milliseconds.  JavaScript values that may be      *)
(* absent (undefined / null) are modelled as sequences: <<>> is absent,    *)
(* <<x>> is the value x.                                                   *)
(***************************************************************************)
EXTENDS Integers, Sequences, FiniteSets, TLC

VARIABLES
    now,              \* Date.now()
    \* ---- ServerCache (src/utils/cache.ts:12-110)
    cache,            \* the Map: a function from the keys present to entries
    lastOp,           \* the cache operation that just ran, with what it returned
    written,          \* per key: the arguments and time of the latest set()
    ticks,            \* number of clock advances so far (bounds the run)
    \* ---- RequestThrottler (src/utils/cache.ts:141-156)
    lastRequestTime,  \* RequestThrottler.lastRequestTime
    tpc,              \* per caller: position inside throttle()
    wakeAt,           \* per caller: when its setTimeout is due
    startedAt,        \* per caller: Date.now() read at the top of throttle()
    completions,      \* log of finished throttle() calls, in completion order
    \* ---- calculateReviewsToRemove (src/utils/reviewCalculations.ts, and the
    \*      buffered revision at src/utils/cache.ts:338-518)
    revision,         \* which revision of the optimizer is called
    breakdown,        \* argument: the ReviewBreakdown
    targetRating,     \* argument: the target, in thousandths of a star
    plan,             \* the CalculationResult returned
    cpc,              \* "ready" before the call, "returned" after it
    \* ---- performCascadingSearch (src/unnamed/part_003:121-373)
    calls,            \* per invocation: position, arguments, requests made, result
    invoked,          \* number of invocations started so far (bounds the run)
    \* ---- geocodePostalCode, geocodeCity (src/utils/cache.ts:158-325) and
    \*      searchCities (src/public/simple-popup.js:226-330)
    throttlers,       \* per RequestThrottler instance: its lastRequestTime
    geoCalls,         \* per invocation: function, argument, position, timer
    released,         \* log of the requests sent to Nominatim, in order
    \* ---- the cache module's top-level code (src/utils/cache.ts:112-124)
    loads,            \* how many times the module's top-level code has run
    cacheCleanupInitialized,  \* global.__cacheCleanupInitialized
    timers,           \* the setInterval timers running: instance swept, next due time
    caches,           \* the ServerCache instances created, in order of creation
    \* ---- the key builders (src/utils/cache.ts:90-109)
    keyArgs,          \* arguments handed to the key builders
    builtKeys,        \* the keys they returned, absent before the call
    \* ---- the pages that call the optimizer: Home (src/pages/index.tsx) and
    \*      RatingControlsColumn (src/unnamed/part_006)
    component,        \* which of the two components is mounted
    ratingData,       \* the ReviewStats of the selected business
    selectedTarget,   \* the state `targetRating`, a string ("" before a choice)
    calculationResult,\* the state `calculationResult`, absent for null
    validationError,  \* the state `validationError`
    sliders,          \* the five slider states, as a ReviewBreakdown
    optimizerCalls,   \* the calls of calculateReviewsToRemove made so far
    uiPc,             \* "mounted" before the first render, then "rendered"
    uiEvents,         \* number of user events handled so far (bounds the run)
    \* ---- the /api/rating handler (src/pages/api/rating.ts:398-601)
    ratingCall,       \* the request being handled: position, body, response
    ratingCount       \* number of requests received so far (bounds the run)

cacheVars    == <<cache, lastOp, written>>
throttleVars == <<lastRequestTime, tpc, wakeAt, startedAt, completions>>
calcVars     == <<revision, breakdown, targetRating, plan, cpc>>
searchVars   == <<calls, invoked>>
geoVars      == <<throttlers, geoCalls, released>>
moduleVars   == <<loads, cacheCleanupInitialized, timers, caches>>
keyVars      == <<keyArgs, builtKeys>>
uiVars       == <<component, ratingData, selectedTarget, calculationResult,
                  validationError, sliders, optimizerCalls, uiPc, uiEvents>>
ratingVars   == <<ratingCall, ratingCount>>
vars         == <<now, ticks, cacheVars, throttleVars, calcVars, searchVars, geoVars,
                  moduleVars, keyVars, uiVars, ratingVars>>

---------------------------------------------------------------------------
(* Bounds of the model                                                     *)

StartTime   == 5000   \* Date.now() when the process starts (any value >= minInterval)
MaxCacheTicks    == 2   \* clock advances per run while the cache is exercised
MaxThrottleTicks == 5   \* clock advances per run while callers are throttled
MaxCallers  == 3      \* concurrent callers of throttle()
MaxCount    == 3      \* reviews per star tier in the distributions tried

Absent  == <<>>
Some(x) == <<x>>

---------------------------------------------------------------------------
(* ServerCache                                                             *)

\* defaultTTL.business = 24 * 60 * 60 * 1000
defaultTTLBusiness == 24 * 60 * 60 * 1000

HourMs == 60 * 60 * 1000

\* `ttl || this.defaultTTL.business`: an omitted ttl and the falsy ttl 0 both
\* select the default.
EffectiveTtl(ttl) ==
    IF ttl # Absent /\ ttl[1] # 0 THEN ttl[1] ELSE defaultTTLBusiness

\* set(key, data, ttl): Map.set replaces whatever was stored under key.
CacheSet(c, key, data, ttl, t) ==
    [k \in (DOMAIN c) \cup {key} |->
        IF k = key
        THEN [data |-> data, timestamp |-> t, expiresAt |-> t + EffectiveTtl(ttl)]
        ELSE c[k]]

\* The expiry test off by one millisecond.
ExpiredLate(entry, t) == t > entry.expiresAt + 1

\* `Date.now() > entry.expiresAt`
Expired(entry, t) == t > entry.expiresAt

CacheDelete(c, key) == [k \in (DOMAIN c) \ {key} |-> c[k]]

\* get(key): the value returned ...
CacheGetResult(c, key, t) ==
    IF key \notin DOMAIN c THEN Absent
    ELSE IF Expired(c[key], t) THEN Absent
    ELSE Some(c[key].data)

\* ... and the Map it leaves behind (lazy eviction of an expired entry).
CacheGetMap(c, key, t) ==
    IF key \in DOMAIN c /\ Expired(c[key], t) THEN CacheDelete(c, key) ELSE c

\* has(key)
CacheHasResult(c, key, t) ==
    IF key \notin DOMAIN c THEN FALSE
    ELSE IF t > c[key].expiresAt THEN FALSE
    ELSE TRUE

CacheHasMap(c, key, t) ==
    IF key \in DOMAIN c /\ t > c[key].expiresAt THEN CacheDelete(c, key) ELSE c

\* The sweep also dropping an entry at the instant of its expiry.
CacheCleanupInclusive(c, t) ==
    [k \in {x \in DOMAIN c : ~(t >= c[x].expiresAt)} |-> c[k]]

\* cleanup(): delete every entry with now > expiresAt
CacheCleanup(c, t) ==
    [k \in {x \in DOMAIN c : ~(t > c[x].expiresAt)} |-> c[k]]

\* getStats()
CacheStats(c) == [size |-> Cardinality(DOMAIN c), keys |-> DOMAIN c]

EmptyCache == [k \in {} |-> 0]

\* Keys, payloads and ttl arguments used to exercise the cache directly.
TestKeys   == {"rating:abc", "geo:10115"}
TestData   == {"v1", "v2"}
TestTtls   == {Absent, Some(0), Some(HourMs)}
\* Clock advances: one millisecond, one hour, 24 hours.
ClockSteps == {1, HourMs, defaultTTLBusiness}

\* `this.cache.get(key)`: the raw Map lookup get() and has() start with.
MapGet(c, key) == IF key \in DOMAIN c THEN Some(c[key]) ELSE Absent

NoOp == [op |-> "none", key |-> "", data |-> "", ttl |-> Absent,
         seen |-> Absent, ret |-> Absent]

Set(k, v, ttl) ==
    /\ cache' = CacheSet(cache, k, v, ttl, now)
    /\ lastOp' = [NoOp EXCEPT !.op = "set", !.key = k, !.data = v, !.ttl = ttl]
    /\ written' = [written EXCEPT ![k] = Some([ttl |-> ttl, at |-> now])]
    /\ UNCHANGED <<now, ticks, throttleVars, calcVars, geoVars, moduleVars, searchVars, keyVars, uiVars, ratingVars>>

Get(k) ==
    /\ cache' = CacheGetMap(cache, k, now)
    /\ lastOp' = [NoOp EXCEPT !.op = "get", !.key = k, !.seen = MapGet(cache, k),
                                !.ret = CacheGetResult(cache, k, now)]
    /\ UNCHANGED <<now, ticks, written, throttleVars, calcVars, geoVars, moduleVars, searchVars, keyVars, uiVars, ratingVars>>

Has(k) ==
    /\ cache' = CacheHasMap(cache, k, now)
    /\ lastOp' = [NoOp EXCEPT !.op = "has", !.key = k, !.seen = MapGet(cache, k),
                                !.ret = Some(CacheHasResult(cache, k, now))]
    /\ UNCHANGED <<now, ticks, written, throttleVars, calcVars, geoVars, moduleVars, searchVars, keyVars, uiVars, ratingVars>>

Delete(k) ==
    /\ cache' = CacheDelete(cache, k)
    /\ lastOp' = [NoOp EXCEPT !.op = "delete", !.key = k,
                                !.ret = Some(k \in DOMAIN cache)]
    /\ UNCHANGED <<now, ticks, written, throttleVars, calcVars, geoVars, moduleVars, searchVars, keyVars, uiVars, ratingVars>>

Clear ==
    /\ cache' = EmptyCache
    /\ lastOp' = [NoOp EXCEPT !.op = "clear"]
    /\ UNCHANGED <<now, ticks, written, throttleVars, calcVars, geoVars, moduleVars, searchVars, keyVars, uiVars, ratingVars>>

\* The 10-minute interval timer calling serverCache.cleanup()
Cleanup ==
    /\ cache' = CacheCleanup(cache, now)
    /\ lastOp' = [NoOp EXCEPT !.op = "cleanup"]
    /\ UNCHANGED <<now, ticks, written, throttleVars, calcVars, geoVars, moduleVars, searchVars, keyVars, uiVars, ratingVars>>

CacheTick ==
    /\ ticks < MaxCacheTicks
    /\ \E d \in ClockSteps : now' = now + d
    /\ ticks' = ticks + 1
    /\ lastOp' = [NoOp EXCEPT !.op = "tick"]
    /\ UNCHANGED <<cache, written, throttleVars, calcVars, geoVars, moduleVars, searchVars, keyVars, uiVars, ratingVars>>

---------------------------------------------------------------------------
(* RequestThrottler                                                        *)

minInterval == 1000

Callers == 1 .. MaxCallers

\* Granularity of the clock while callers are throttled.
ThrottleSteps == {minInterval \div 2}

\* throttle(), up to its await: reads Date.now() and lastRequestTime once.  With
\* no wait needed the body runs to its end synchronously.
ThrottleCall(c) ==
    /\ tpc[c] = "idle"
    /\ LET timeSinceLastRequest == now - lastRequestTime
       IN  IF timeSinceLastRequest < minInterval
           THEN /\ tpc' = [tpc EXCEPT ![c] = "waiting"]
                /\ wakeAt' = [wakeAt EXCEPT ![c] = now + (minInterval - timeSinceLastRequest)]
                /\ startedAt' = [startedAt EXCEPT ![c] = now]
                /\ UNCHANGED <<lastRequestTime, completions>>
           ELSE /\ tpc' = [tpc EXCEPT ![c] = "done"]
                /\ lastRequestTime' = now
                /\ startedAt' = [startedAt EXCEPT ![c] = now]
                /\ completions' = Append(completions,
                                         [caller |-> c, started |-> now, at |-> now])
                /\ UNCHANGED wakeAt
    /\ UNCHANGED <<now, ticks, cacheVars, calcVars, geoVars, moduleVars, searchVars, keyVars, uiVars, ratingVars>>

\* A resumed caller that returns without writing lastRequestTime.
ThrottleResumeNoWrite(c) ==
    /\ tpc[c] = "waiting"
    /\ now >= wakeAt[c]
    /\ tpc' = [tpc EXCEPT ![c] = "done"]
    /\ completions' = Append(completions,
                             [caller |-> c, started |-> startedAt[c], at |-> now])
    /\ UNCHANGED <<now, ticks, cacheVars, calcVars, geoVars, moduleVars, searchVars, wakeAt,
                   startedAt, keyVars, uiVars, lastRequestTime, ratingVars>>

\* The setTimeout of a waiting caller fires (never early, possibly late); the
\* caller resumes and executes `this.lastRequestTime = Date.now()`.
ThrottleResume(c) ==
    /\ tpc[c] = "waiting"
    /\ now >= wakeAt[c]
    /\ tpc' = [tpc EXCEPT ![c] = "done"]
    /\ lastRequestTime' = now
    /\ completions' = Append(completions,
                             [caller |-> c, started |-> startedAt[c], at |-> now])
    /\ UNCHANGED <<now, ticks, cacheVars, calcVars, geoVars, moduleVars, searchVars, wakeAt, startedAt, keyVars, uiVars, ratingVars>>

ThrottleTick ==
    /\ ticks < MaxThrottleTicks
    /\ \E d \in ThrottleSteps : now' = now + d
    /\ ticks' = ticks + 1
    /\ UNCHANGED <<cacheVars, throttleVars, calcVars, geoVars, moduleVars, searchVars, keyVars, uiVars, ratingVars>>

---------------------------------------------------------------------------
(* Review-adjustment optimizer.  Ratings are rationals; a rating that the    *)
(* code holds rounded to d decimals is held here as an integer number of     *)
(* 10^-d stars, and targets and projected ratings in thousandths of a star.  *)

Breakdowns ==
    [one_star : 0 .. MaxCount, two_star : 0 .. MaxCount, three_star : 0 .. MaxCount,
     four_star : 0 .. MaxCount, five_star : 0 .. MaxCount]

\* Targets tried, in thousandths: the UI menu 4.0 .. 5.0, low targets that small
\* distributions have to work for, and targets with two and three decimals.
Targets == {1500, 1670, 2500, 3000, 3333, 3500, 4000, 4200, 4500, 4700, 5000}

totalReviews(b) ==
    b.one_star + b.two_star + b.three_star + b.four_star + b.five_star

currentScore(b) ==
    b.five_star * 5 + b.four_star * 4 + b.three_star * 3 + b.two_star * 2
        + b.one_star * 1

\* Math.round(x * scale) for the rational x = num / den >= 0: Math.round rounds
\* halves up.
RoundHalfUp(num, den, scale) == (2 * num * scale + den) \div (2 * den)

\* The values k / 1000 for which the double computation
\* Math.round((k / 1000 + Number.EPSILON) * 100) yields floor(k / 10): the
\* product lands just below the half (IEEE-754 binary64), for 0 <= k <= 5000.
FloatRoundsDown ==
    {2135, 2175, 2385, 2425, 4015, 4145, 4185, 4225, 4265, 4395, 4435, 4475,
     4515, 4645, 4685, 4725, 4765, 4895, 4935, 4975}

\* preciseRound(num / den, decimals), as a number of 10^-decimals.  Exact for
\* the ratings of distributions of fewer than 80 reviews.
preciseRound(num, den, decimals) ==
    IF decimals = 3 THEN RoundHalfUp(num, den, 1000)
    ELSE IF den = 1000 /\ num \in FloatRoundsDown THEN num \div 10
    ELSE RoundHalfUp(num, den, 100)

\* googleRound(rating) for a rating given in thousandths; result in hundredths.
googleRound(rating) == preciseRound(rating, 1000, 2)

NoneRemoved == [oneStar |-> 0, twoStar |-> 0, threeStar |-> 0, fourStar |-> 0,
                fiveStar |-> 0]

\* The loop condition comparing the average rounded to one decimal.
BelowTargetOneDecimal(tempScore, tempTotal, target) ==
    tempTotal > 0 /\ 100 * RoundHalfUp(tempScore, tempTotal, 10) < target

\* The comparison of the loop condition turned round.
BelowTargetInverted(tempScore, tempTotal, target) ==
    tempTotal > 0 /\ preciseRound(tempScore, tempTotal, 3) > target

\* Loop condition: tempTotal > 0 && preciseRound(tempScore / tempTotal, 3) < targetRating
BelowTarget(tempScore, tempTotal, target) ==
    tempTotal > 0 /\ preciseRound(tempScore, tempTotal, 3) < target

\* The chain with its first two branches swapped: two-star reviews go before
\* one-star reviews.
TierToRemoveTwoFirst(tb) ==
    IF tb.two_star > 0 THEN 2
    ELSE IF tb.one_star > 0 THEN 1
    ELSE IF tb.three_star > 0 THEN 3
    ELSE IF tb.four_star > 0 THEN 4
    ELSE 0

\* The chain in the opposite order: the best removable tier first.
TierToRemoveBestFirst(tb) ==
    IF tb.four_star > 0 THEN 4
    ELSE IF tb.three_star > 0 THEN 3
    ELSE IF tb.two_star > 0 THEN 2
    ELSE IF tb.one_star > 0 THEN 1
    ELSE 0

\* The if / else-if chain of the loop body: the star tier the next removal is
\* taken from, 0 when tiers 1-4 are empty (break).
TierToRemove(tb) ==
    IF tb.one_star > 0 THEN 1
    ELSE IF tb.two_star > 0 THEN 2
    ELSE IF tb.three_star > 0 THEN 3
    ELSE IF tb.four_star > 0 THEN 4
    ELSE 0

\* One removal from tier: tempBreakdown.x--, removed.x++, tempScore -= tier,
\* tempTotal--.
RemoveOne(st, tier) ==
    [tempBreakdown |->
        CASE tier = 1 -> [st.tempBreakdown EXCEPT !.one_star = @ - 1]
          [] tier = 2 -> [st.tempBreakdown EXCEPT !.two_star = @ - 1]
          [] tier = 3 -> [st.tempBreakdown EXCEPT !.three_star = @ - 1]
          [] tier = 4 -> [st.tempBreakdown EXCEPT !.four_star = @ - 1]
          [] tier = 5 -> [st.tempBreakdown EXCEPT !.five_star = @ - 1],
     removed |->
        CASE tier = 1 -> [st.removed EXCEPT !.oneStar = @ + 1]
          [] tier = 2 -> [st.removed EXCEPT !.twoStar = @ + 1]
          [] tier = 3 -> [st.removed EXCEPT !.threeStar = @ + 1]
          [] tier = 4 -> [st.removed EXCEPT !.fourStar = @ + 1]
          [] tier = 5 -> [st.removed EXCEPT !.fiveStar = @ + 1],
     tempScore |-> st.tempScore - tier,
     tempTotal |-> st.tempTotal - 1]

\* The caller's breakdown object once the call has returned, st being the
\* state the removal loops ended in.  `let tempBreakdown = { ...breakdown }`
\* makes the loops decrement a fresh object, so the caller's keeps its counts.
CallerBreakdownAliased(b, st) == st.tempBreakdown

CallerBreakdown(b, st) == b

LoopStart(b) ==
    [tempBreakdown |-> b, removed |-> NoneRemoved,
     tempScore |-> currentScore(b), tempTotal |-> totalReviews(b)]

\* The while loop of calculateMinimalRemovals.
RECURSIVE RemovalLoop(_, _)
RemovalLoop(st, target) ==
    IF BelowTarget(st.tempScore, st.tempTotal, target) /\ TierToRemove(st.tempBreakdown) # 0
    THEN RemovalLoop(RemoveOne(st, TierToRemove(st.tempBreakdown)), target)
    ELSE st

calculateMinimalRemovals(target, b) ==
    LET st          == RemovalLoop(LoopStart(b), target)
        finalRating == IF st.tempTotal > 0
                       THEN preciseRound(st.tempScore, st.tempTotal, 3) ELSE 0
    IN  [targetRating |-> target,
         reviewsToRemove |-> st.removed,
         reviewsToAdd |-> [fiveStar |-> 0],
         projectedRating |-> 10 * googleRound(finalRating),
         projectedIsNaN |-> FALSE,
         strategy |-> "remove"]

\* The optimizer trusting the scalar: nothing to do when the rating handed in
\* already is at the target.
calculateReviewsToRemoveByRating(rating, target, b) ==
    IF rating >= target
    THEN [targetRating |-> target, reviewsToRemove |-> NoneRemoved,
          reviewsToAdd |-> [fiveStar |-> 0], projectedRating |-> rating,
          projectedIsNaN |-> FALSE, strategy |-> "remove"]
    ELSE calculateMinimalRemovals(target, b)

\* calculateReviewsToRemove(currentRating, targetRating, breakdown): "We only do
\* removals, not additions".  currentRating is not read.
calculateReviewsToRemove(rating, target, b) == calculateMinimalRemovals(target, b)

NoPlan == [targetRating |-> 0, reviewsToRemove |-> NoneRemoved,
           reviewsToAdd |-> [fiveStar |-> 0], projectedRating |-> 0,
           projectedIsNaN |-> FALSE, strategy |-> "none"]

\* The rating the caller displays and passes along: googleRound of the
\* distribution's average (0 for an empty distribution), in thousandths.
DisplayedRating(b) ==
    IF totalReviews(b) = 0 THEN 0
    ELSE 10 * RoundHalfUp(currentScore(b), totalReviews(b), 100)

Calculate ==
    /\ cpc = "ready"
    /\ revision = "current"
    /\ plan' = calculateReviewsToRemove(DisplayedRating(breakdown), targetRating, breakdown)
    /\ breakdown' = CallerBreakdown(breakdown, RemovalLoop(LoopStart(breakdown), targetRating))
    /\ cpc' = "returned"
    /\ UNCHANGED <<now, ticks, cacheVars, throttleVars, searchVars, geoVars, moduleVars, revision, targetRating, keyVars, uiVars, ratingVars>>

---------------------------------------------------------------------------
(* The buffered revision of the optimizer (src/utils/cache.ts:338-518):     *)
(* raw comparison, a 94 % success-rate buffer, and an additive alternative.  *)

\* googleRound of that revision: Math.round(rating * 10) / 10 for the rational
\* rating num / den; result in tenths.
googleRoundBuffered(num, den) == RoundHalfUp(num, den, 10)

\* Loop condition: tempTotal > 0 && tempScore / tempTotal < targetRating
BelowTargetBuffered(tempScore, tempTotal, target) ==
    tempTotal > 0 /\ 1000 * tempScore < target * tempTotal

\* The if / else-if chain of both loops of that revision: five-star reviews
\* come last, 0 when nothing is left (break).
TierToRemoveBuffered(tb) ==
    IF tb.one_star > 0 THEN 1
    ELSE IF tb.two_star > 0 THEN 2
    ELSE IF tb.three_star > 0 THEN 3
    ELSE IF tb.four_star > 0 THEN 4
    ELSE IF tb.five_star > 0 THEN 5
    ELSE 0

RECURSIVE RemovalLoopBuffered(_, _)
RemovalLoopBuffered(st, target) ==
    IF BelowTargetBuffered(st.tempScore, st.tempTotal, target)
       /\ TierToRemoveBuffered(st.tempBreakdown) # 0
    THEN RemovalLoopBuffered(RemoveOne(st, TierToRemoveBuffered(st.tempBreakdown)), target)
    ELSE st

SumRemoved(r) == r.oneStar + r.twoStar + r.threeStar + r.fourStar + r.fiveStar

\* Math.ceil(totalRemovals / 0.94) (exact below 200 removals)
BufferedRemovals(totalRemovals) == (50 * totalRemovals + 46) \div 47

\* The second loop: while (additionalRemoved < additionalRemovals && tempTotal > 0)
RECURSIVE BufferLoop(_, _, _)
BufferLoop(st, additionalRemoved, additionalRemovals) ==
    IF additionalRemoved < additionalRemovals /\ st.tempTotal > 0
       /\ TierToRemoveBuffered(st.tempBreakdown) # 0
    THEN BufferLoop(RemoveOne(st, TierToRemoveBuffered(st.tempBreakdown)),
                    additionalRemoved + 1, additionalRemovals)
    ELSE st

\* The state both loops of calculateMinimalRemovals end in.
LoopEndBuffered(target, b) ==
    LET st1 == RemovalLoopBuffered(LoopStart(b), target)
        totalRemovals == SumRemoved(st1.removed)
    IN  BufferLoop(st1, 0, BufferedRemovals(totalRemovals) - totalRemovals)

calculateMinimalRemovalsBuffered(target, b) ==
    LET st1 == RemovalLoopBuffered(LoopStart(b), target)
        totalRemovals == SumRemoved(st1.removed)
        additionalRemovals == BufferedRemovals(totalRemovals) - totalRemovals
        st  == BufferLoop(st1, 0, additionalRemovals)
    IN  [targetRating |-> target,
         reviewsToRemove |-> st.removed,
         reviewsToAdd |-> [fiveStar |-> 0],
         projectedRating |-> IF st.tempTotal > 0
                             THEN 100 * googleRoundBuffered(st.tempScore, st.tempTotal)
                             ELSE 0,
         projectedIsNaN |-> FALSE,
         strategy |-> "remove"]

\* Loop condition of calculateAdditions:
\* (tempScore + n * 5) / (tempTotal + n) < targetRating; 0 / 0 is NaN, and
\* NaN < x is false.
NeedsMoreFiveStars(tempScore, tempTotal, n, target) ==
    /\ tempTotal + n > 0
    /\ 1000 * (tempScore + n * 5) < target * (tempTotal + n)

\* `if (neededFiveStars > 1000) break;`
SafetyLimit == 1000

\* The loop as a do-while: one five-star review is counted before the first
\* test of the condition.
AdditionLoopCountsFirst(tempScore, tempTotal, target) ==
    IF target >= 5000 THEN SafetyLimit + 1
    ELSE LET need == target * (tempTotal + 1) - 1000 * (tempScore + 5)
             gain == 5000 - target
             n    == IF need <= 0 THEN 1 ELSE 1 + (need + gain - 1) \div gain
         IN  IF n > SafetyLimit THEN SafetyLimit + 1 ELSE n

\* The value of neededFiveStars when
\*     while (cond) { neededFiveStars++; if (neededFiveStars > 1000) break; }
\* ends: the least n with cond false, or 1001 when the break ends it.  Adding a
\* five-star review never lowers the average, so cond, once false, stays
\* false: with need = target * total - score > 0 and gain = 5 - target per
\* added review, cond(n) is n * gain < need.
AdditionLoop(tempScore, tempTotal, target) ==
    IF ~NeedsMoreFiveStars(tempScore, tempTotal, 0, target) THEN 0
    ELSE IF target >= 5000 THEN SafetyLimit + 1
    ELSE LET need == target * tempTotal - 1000 * tempScore
             gain == 5000 - target
             n    == (need + gain - 1) \div gain
         IN  IF n > SafetyLimit THEN SafetyLimit + 1 ELSE n

calculateAdditions(target, b) ==
    LET tempScore == currentScore(b)
        tempTotal == totalReviews(b)
        neededFiveStars == AdditionLoop(tempScore, tempTotal, target)
        isNaN == tempTotal + neededFiveStars = 0
    IN  [targetRating |-> target,
         reviewsToRemove |-> NoneRemoved,
         reviewsToAdd |-> [fiveStar |-> neededFiveStars],
         projectedRating |-> IF isNaN THEN 0
                             ELSE 100 * googleRoundBuffered(tempScore + neededFiveStars * 5,
                                                            tempTotal + neededFiveStars),
         projectedIsNaN |-> isNaN,
         strategy |-> "add"]

\* A selection by the number of edits alone.
SelectByCountAlone(rating, target, b) ==
    LET removalResult  == calculateMinimalRemovalsBuffered(target, b)
        additionResult == calculateAdditions(target, b)
    IN  IF SumRemoved(removalResult.reviewsToRemove) <= additionResult.reviewsToAdd.fiveStar
        THEN removalResult
        ELSE additionResult

\* Selection: the removal plan when it needs no more edits than the additions
\* and its projected rating reaches the target, else the addition plan.
calculateReviewsToRemoveBuffered(rating, target, b) ==
    LET removalResult  == calculateMinimalRemovalsBuffered(target, b)
        additionResult == calculateAdditions(target, b)
        totalRemovals  == SumRemoved(removalResult.reviewsToRemove)
        totalAdditions == additionResult.reviewsToAdd.fiveStar
    IN  IF totalRemovals <= totalAdditions /\ removalResult.projectedRating >= target
        THEN removalResult
        ELSE additionResult

CalculateBuffered ==
    /\ cpc = "ready"
    /\ revision = "buffered"
    /\ plan' = calculateReviewsToRemoveBuffered(DisplayedRating(breakdown), targetRating,
                                                breakdown)
    /\ breakdown' = CallerBreakdown(breakdown, LoopEndBuffered(targetRating, breakdown))
    /\ cpc' = "returned"
    /\ UNCHANGED <<now, ticks, cacheVars, throttleVars, searchVars, geoVars, moduleVars, revision, targetRating, keyVars, uiVars, ratingVars>>

---------------------------------------------------------------------------
(* Cache keys (src/utils/cache.ts:91-109).  Strings whose characters matter *)
(* (case, surrounding blanks, substrings) are sequences of one-character   *)
(* strings.                                                                *)

\* String.prototype.toLowerCase, one character
LowerChar(ch) ==
    CASE ch = "A" -> "a" [] ch = "B" -> "b" [] ch = "C" -> "c" [] ch = "D" -> "d"
      [] ch = "E" -> "e" [] ch = "F" -> "f" [] ch = "G" -> "g" [] ch = "H" -> "h"
      [] ch = "I" -> "i" [] ch = "J" -> "j" [] ch = "K" -> "k" [] ch = "L" -> "l"
      [] ch = "M" -> "m" [] ch = "N" -> "n" [] ch = "O" -> "o" [] ch = "P" -> "p"
      [] ch = "Q" -> "q" [] ch = "R" -> "r" [] ch = "S" -> "s" [] ch = "T" -> "t"
      [] ch = "U" -> "u" [] ch = "V" -> "v" [] ch = "W" -> "w" [] ch = "X" -> "x"
      [] ch = "Y" -> "y" [] ch = "Z" -> "z" [] OTHER -> ch

toLowerCase(s) == [i \in 1 .. Len(s) |-> LowerChar(s[i])]

\* String.prototype.trim
RECURSIVE trimStart(_)
trimStart(s) == IF s # <<>> /\ Head(s) = " " THEN trimStart(Tail(s)) ELSE s

RECURSIVE trimEnd(_)
trimEnd(s) ==
    IF s # <<>> /\ s[Len(s)] = " " THEN trimEnd(SubSeq(s, 1, Len(s) - 1)) ELSE s

trim(s) == trimEnd(trimStart(s))

\* String.prototype.includes
includes(s, t) ==
    \E i \in 1 .. (Len(s) - Len(t) + 1) : SubSeq(s, i, i + Len(t) - 1) = t

\* `search:${query.toLowerCase().trim()}:${postalCode.toLowerCase().trim()}`
generateBusinessSearchKey(query, postalCode) ==
    <<"s", "e", "a", "r", "c", "h", ":">> \o trim(toLowerCase(query))
        \o <<":">> \o trim(toLowerCase(postalCode))

\* `geo:${postalCode.toLowerCase().trim()}`
generateGeocodingKey(postalCode) ==
    <<"g", "e", "o", ":">> \o trim(toLowerCase(postalCode))

\* The business-data key filed under the prefix of the search keys.
generateBusinessDataKeyAsSearch(businessName, postalCode) ==
    <<"s", "e", "a", "r", "c", "h", ":">> \o trim(toLowerCase(businessName))
        \o <<":">> \o trim(toLowerCase(postalCode))

\* `biz:${businessName.toLowerCase().trim()}:${postalCode.toLowerCase().trim()}`
generateBusinessDataKey(businessName, postalCode) ==
    <<"b", "i", "z", ":">> \o trim(toLowerCase(businessName))
        \o <<":">> \o trim(toLowerCase(postalCode))

\* `rating:${place_id}`
generateRatingKey(place_id) ==
    <<"r", "a", "t", "i", "n", "g", ":">> \o place_id

MaxKeyLen == 2   \* length of the free-form arguments of the key builders

\* Characters of the arguments tried: a lower-case and an upper-case letter, a
\* blank and the separator of the keys.
KeyChars == {"a", "B", " ", ":"}

RECURSIVE StringsUpTo(_)
StringsUpTo(n) ==
    IF n = 0 THEN {<<>>}
    ELSE LET shorter == StringsUpTo(n - 1)
         IN  shorter \cup {Append(s, ch) : s \in {t \in shorter : Len(t) = n - 1},
                                           ch \in KeyChars}

\* Arguments that spell the beginning of a key of another class.
PrefixLikeArgs ==
    {<<"g", "e", "o", ":">>, <<"s", "e", "a", "r", "c", "h", ":">>,
     <<"b", "i", "z", ":">>, <<"r", "a", "t", "i", "n", "g", ":">>}

KeyArgs == StringsUpTo(MaxKeyLen) \cup PrefixLikeArgs

PlaceIds == StringsUpTo(1) \cup PrefixLikeArgs

\* One call of each builder: generateGeocodingKey(x),
\* generateBusinessSearchKey(x, y), generateBusinessDataKey(x, y),
\* generateRatingKey(z).
BuildKeys ==
    /\ builtKeys = Absent
    /\ builtKeys' = Some([geo    |-> generateGeocodingKey(keyArgs.x),
                          search |-> generateBusinessSearchKey(keyArgs.x, keyArgs.y),
                          biz    |-> generateBusinessDataKey(keyArgs.x, keyArgs.y),
                          rating |-> generateRatingKey(keyArgs.z)])
    /\ UNCHANGED <<now, ticks, cacheVars, throttleVars, calcVars, searchVars, geoVars,
                   moduleVars, keyArgs, uiVars, ratingVars>>

\* `${page}` for the page numbers used here
PageDigits(page) ==
    CASE page = 1 -> <<"1">> [] page = 2 -> <<"2">> [] page = 3 -> <<"3">>
      [] page = 4 -> <<"4">> [] page = 5 -> <<"5">> [] page = 6 -> <<"6">>
      [] page = 7 -> <<"7">> [] page = 8 -> <<"8">> [] page = 9 -> <<"9">>

Unknown == <<"u", "n", "k", "n", "o", "w", "n">>

\* baseRequestBody.locationIdentifier || "unknown"
LocationKey(locationIdentifier) ==
    IF locationIdentifier = <<>> THEN Unknown ELSE locationIdentifier

\* The key without its page suffix.
SearchCacheKeyNoPage(query, locationIdentifier, page) ==
    generateBusinessSearchKey(query, LocationKey(locationIdentifier))

\* `${serverCache.generateBusinessSearchKey(query, locationKey)}:page${page}`
SearchCacheKey(query, locationIdentifier, page) ==
    generateBusinessSearchKey(query, LocationKey(locationIdentifier))
        \o <<":", "p", "a", "g", "e">> \o PageDigits(page)

---------------------------------------------------------------------------
(* performCascadingSearch                                                  *)

\* categoryMappings, in the order Object.entries yields it
categoryMappings == <<
    [term |-> <<"p", "i", "z", "z", "a">>, categories |-> <<"pizza_restaurant">>],
    [term |-> <<"r", "e", "s", "t", "a", "u", "r", "a", "n", "t">>,
        categories |-> <<"restaurant">>],
    [term |-> <<"c", "a", "f", "e">>, categories |-> <<"cafe">>],
    [term |-> <<"c", "o", "f", "f", "e", "e">>, categories |-> <<"coffee_shop", "cafe">>],
    [term |-> <<"h", "o", "t", "e", "l">>, categories |-> <<"hotel">>],
    [term |-> <<"b", "a", "r">>, categories |-> <<"bar">>],
    [term |-> <<"s", "h", "o", "p">>, categories |-> <<"store">>],
    [term |-> <<"b", "a", "k", "e", "r", "y">>, categories |-> <<"bakery">>],
    [term |-> <<"p", "h", "a", "r", "m", "a", "c", "y">>, categories |-> <<"pharmacy">>],
    [term |-> <<"b", "a", "n", "k">>, categories |-> <<"bank">>],
    [term |-> <<"g", "y", "m">>, categories |-> <<"gym">>],
    [term |-> <<"f", "i", "t", "n", "e", "s", "s">>, categories |-> <<"gym">>] >>

\* `searchTermLower.includes(term)` for entry i of the table
TermMatches(query, i) == includes(toLowerCase(query), categoryMappings[i].term)

\* The next entry after position `after` that the for-loop does not skip, or 0
\* when the loop runs off the end of the table.
NextMatchingTerm(query, after) ==
    LET rest == {i \in (after + 1) .. Len(categoryMappings) : TermMatches(query, i)}
    IN  IF rest = {} THEN 0 ELSE CHOOSE i \in rest : \A j \in rest : i <= j

\* baseRequestBody.limit
limit == 5

\* offset: (page - 1) * baseRequestBody.limit
RequestOffset(page) == (page - 1) * limit

\* What the DataForSEO endpoint can answer to a request with the given offset.
\* ok is FALSE when makeDataForSeoRequest throws (fetch rejects, HTTP status
\* not ok, or status_code other than 20000); otherwise items, total_count,
\* offset and count are tasks[0].result[0] of the response.
UpstreamResponses(offset) ==
    { [ok |-> FALSE, items |-> <<>>, total_count |-> 0, offset |-> 0, count |-> 0],
      [ok |-> TRUE, items |-> <<>>, total_count |-> 0, offset |-> offset, count |-> 0],
      [ok |-> TRUE, items |-> <<"biz1">>, total_count |-> 7, offset |-> offset,
       count |-> 1] }

\* extractBusinesses: result.items, or [] when there is none
extractBusinesses(data) == data.items

MaxSearches    == 3   \* invocations of performCascadingSearch per run
MaxSearchTicks == 2   \* clock advances per run while searches are made

\* The invocations in progress.  An invocation meets another one only through
\* the cache, which it reads once on entry and writes once on exit, so they are
\* made one after another; clear() and the periodic cleanup() run in between.
SearchCalls == {"search"}

\* The (query, locationIdentifier, page) triples searched for: a query naming
\* two category terms, and one naming none and sent without a location.
SearchArgs ==
    { [query |-> <<"c", "o", "f", "f", "e", "e", " ", "b", "a", "r">>,
       locationIdentifier |-> <<"1", "0", "1", "1", "5">>, page |-> 2],
      [query |-> <<"A", "r", "z", "t">>, locationIdentifier |-> <<>>, page |-> 1] }

\* Requests for the first two pages of one query at one location.
PageArgs ==
    { [query |-> <<"b", "a", "r">>, locationIdentifier |-> <<"1", "0", "1", "1", "5">>,
       page |-> 1],
      [query |-> <<"b", "a", "r">>, locationIdentifier |-> <<"1", "0", "1", "1", "5">>,
       page |-> 2] }

\* Requests whose texts hold the separator of the key.  The handler passes
\* the query as typed and builds the location identifier of a coordinate
\* request as `coords_${parts[0]}_${parts[1]}` from the parts of the text
\* between commas, whatever they hold (src/unnamed/part_003:611-616): here
\* the coordinate texts "3,4", "1,2:coords_3_4" and again "1,2:coords_3_4".
AmbiguousArgs ==
    { [query |-> <<"b", "a", "r", ":", "c", "o", "o", "r", "d", "s", "_", "1", "_", "2">>,
       locationIdentifier |-> <<"c", "o", "o", "r", "d", "s", "_", "3", "_", "4">>, page |-> 1],
      [query |-> <<"b", "a", "r">>,
       locationIdentifier |-> <<"c", "o", "o", "r", "d", "s", "_", "1", "_", "2", ":", "c", "o", "o", "r", "d", "s", "_", "3", "_", "4">>,
       page |-> 1],
      [query |-> <<" ", "B", "A", "R">>,
       locationIdentifier |-> <<"c", "o", "o", "r", "d", "s", "_", "1", "_", "2", ":", "c", "o", "o", "r", "d", "s", "_", "3", "_", "4">>,
       page |-> 1] }

\* The result object of a successful attempt (taskId, which nothing reads, is
\* left out).
FoundResult(businesses, searchType, data) ==
    [businesses |-> businesses, searchType |-> searchType,
     totalCount |-> data.total_count,
     currentOffset |-> data.offset,
     currentCount |-> IF data.count # 0 THEN data.count ELSE Len(businesses)]

\* The result object when every attempt is exhausted
NoResult ==
    [businesses |-> <<>>, searchType |-> "none", totalCount |-> 0,
     currentOffset |-> 0, currentCount |-> 0]

\* A found result kept no longer than an empty one.
FoundTtlAsEmpty == 60 * 60 * 1000

\* serverCache.set(cacheKey, result, 2 * 60 * 60 * 1000)
FoundTtl == 2 * 60 * 60 * 1000

\* serverCache.set(cacheKey, result, 60 * 60 * 1000)
EmptyTtl == 60 * 60 * 1000

\* An invocation that has not started.  requests is the log of upstream
\* requests the invocation has made, each with the response once it arrived;
\* looked is what the cache held under the key when it was consulted; stored is
\* what the cache held under the key when the invocation finished.
IdleCall ==
    [pc |-> "idle", query |-> <<>>, locationIdentifier |-> <<>>, page |-> 1,
     bypassCache |-> FALSE, cacheKey |-> <<>>, term |-> 0, requests |-> <<>>,
     looked |-> Absent,
     ret |-> Absent, threw |-> FALSE, stored |-> Absent]

\* const cacheKey, computed once on entry
CacheKeyOf(call) == call.cacheKey

\* `if (cachedResult)`: any cached result object is truthy
CacheHitEmptyIgnored(cachedResult) ==
    cachedResult # Absent /\ cachedResult[1].businesses # <<>>

CacheHit(cachedResult) == cachedResult # Absent

\* `if (titleBusinesses.length > 0)` and its two siblings
SucceededWithSeveral(businesses) == Len(businesses) > 1

Succeeded(businesses) == Len(businesses) > 0

\* Each attempt sits in its own try/catch, whose handler only logs.
CatchesOutsideLoop(searchType) == searchType # "category"

Catches(searchType) == TRUE

NewRequest(searchType, term) ==
    [searchType |-> searchType, term |-> term, response |-> Absent]

\* The request in flight has been answered.
Answer(requests, data) ==
    [requests EXCEPT ![Len(requests)].response = Some(data)]

\* The invocation ends: it returns `result`, or throws when result is absent.
Finish(c, call, requests, result) ==
    calls' = [calls EXCEPT ![c] =
                [call EXCEPT !.pc = "done", !.requests = requests,
                             !.ret = result, !.threw = (result = Absent),
                             !.stored = MapGet(cache', CacheKeyOf(call))]]

\* The attempt after the one just made: description after title, then one
\* category request per matching table entry; with none left the empty result
\* is cached and returned.
NextAttempt(c, call, requests) ==
    LET after == IF call.pc = "category" THEN call.term ELSE 0
        term  == IF call.pc = "title" THEN 0
                 ELSE NextMatchingTerm(call.query, after)
    IN  IF call.pc = "title"
        THEN /\ calls' = [calls EXCEPT ![c] =
                    [call EXCEPT !.pc = "description",
                                 !.requests = Append(requests,
                                                NewRequest("description", 0))]]
             /\ UNCHANGED cache
        ELSE IF term # 0
        THEN /\ calls' = [calls EXCEPT ![c] =
                    [call EXCEPT !.pc = "category", !.term = term,
                                 !.requests = Append(requests,
                                                NewRequest("category", term))]]
             /\ UNCHANGED cache
        ELSE /\ cache' = CacheSet(cache, CacheKeyOf(call), NoResult,
                                  Some(EmptyTtl), now)
             /\ Finish(c, call, requests, Some(NoResult))

\* The response to the request in flight arrives and the function runs on to
\* its next await or to its return.
Answered(c, data) ==
    LET call       == calls[c]
        requests   == Answer(call.requests, data)
        businesses == extractBusinesses(data)
    IN  IF data.ok /\ Succeeded(businesses)
        THEN LET result == FoundResult(businesses, call.pc, data) IN
             /\ cache' = CacheSet(cache, CacheKeyOf(call), result,
                                  Some(FoundTtl), now)
             /\ Finish(c, call, requests, Some(result))
        ELSE IF ~data.ok /\ ~Catches(call.pc)
        THEN /\ UNCHANGED cache
             /\ Finish(c, call, requests, Absent)
        ELSE NextAttempt(c, call, requests)

\* performCascadingSearch is called: the cache lookup, and on a miss or a
\* bypass the title request is sent.
SearchCall(c, args, bypassCache) ==
    LET call == [IdleCall EXCEPT !.query = args.query,
                                 !.locationIdentifier = args.locationIdentifier,
                                 !.page = args.page,
                                 !.bypassCache = bypassCache,
                                 !.cacheKey = SearchCacheKey(args.query,
                                     args.locationIdentifier, args.page)]
        cacheKey == CacheKeyOf(call)
        cachedResult == CacheGetResult(cache, cacheKey, now)
    IN  /\ calls[c].pc = "idle"
        /\ invoked < MaxSearches
        /\ invoked' = invoked + 1
        /\ IF ~bypassCache
           THEN /\ cache' = CacheGetMap(cache, cacheKey, now)
                /\ LET seen == [call EXCEPT !.looked =
                                   Some([entry |-> MapGet(cache, cacheKey),
                                         at |-> now])]
                   IN  IF CacheHit(cachedResult)
                       THEN Finish(c, seen, <<>>, cachedResult)
                       ELSE calls' = [calls EXCEPT ![c] =
                                [seen EXCEPT !.pc = "title",
                                     !.requests = <<NewRequest("title", 0)>>]]
           ELSE /\ UNCHANGED cache
                /\ calls' = [calls EXCEPT ![c] =
                        [call EXCEPT !.pc = "title",
                                     !.requests = <<NewRequest("title", 0)>>]]
        /\ UNCHANGED <<now, ticks, lastOp, written, throttleVars, calcVars, geoVars, moduleVars, keyVars, uiVars, ratingVars>>

TitleResponse(c) ==
    /\ calls[c].pc = "title"
    /\ \E data \in UpstreamResponses(RequestOffset(calls[c].page)) : Answered(c, data)
    /\ UNCHANGED <<now, ticks, lastOp, written, throttleVars, calcVars, geoVars, moduleVars, invoked, keyVars, uiVars, ratingVars>>

DescriptionResponse(c) ==
    /\ calls[c].pc = "description"
    /\ \E data \in UpstreamResponses(RequestOffset(calls[c].page)) : Answered(c, data)
    /\ UNCHANGED <<now, ticks, lastOp, written, throttleVars, calcVars, geoVars, moduleVars, invoked, keyVars, uiVars, ratingVars>>

CategoryResponse(c) ==
    /\ calls[c].pc = "category"
    /\ \E data \in UpstreamResponses(RequestOffset(calls[c].page)) : Answered(c, data)
    /\ UNCHANGED <<now, ticks, lastOp, written, throttleVars, calcVars, geoVars, moduleVars, invoked, keyVars, uiVars, ratingVars>>

\* What the handler answers once performCascadingSearch has returned `result`
\* (absent when it threw): 500 from the handler's catch, 404 for an empty
\* businesses array, 200 otherwise.
handlerResponse(result) ==
    IF result = Absent
    THEN [status |-> 500, success |-> FALSE, error |-> "upstream"]
    ELSE IF Len(result[1].businesses) = 0
    THEN [status |-> 404, success |-> FALSE, error |-> "Keine Unternehmen gefunden"]
    ELSE [status |-> 200, success |-> TRUE, error |-> ""]

\* The caller has taken the result; the slot is free for another invocation.
SearchReturn(c) ==
    /\ calls[c].pc = "done"
    /\ calls' = [calls EXCEPT ![c] = IdleCall]
    /\ UNCHANGED <<now, ticks, cacheVars, throttleVars, calcVars, geoVars, moduleVars, invoked, keyVars, uiVars, ratingVars>>

SearchTick ==
    /\ ticks < MaxSearchTicks
    /\ now' = now + HourMs
    /\ ticks' = ticks + 1
    /\ UNCHANGED <<cacheVars, throttleVars, calcVars, geoVars, moduleVars, searchVars, keyVars, uiVars, ratingVars>>

---------------------------------------------------------------------------
(* The Nominatim callers: geocodePostalCode and geocodeCity share the      *)
(* throttler of src/utils/cache.ts:158, searchCities uses the throttler of *)
(* src/public/simple-popup.js:226.                                         *)

MaxGeoCalls == 2   \* invocations of the three functions in progress together
MaxGeoTicks == 2   \* clock advances per run while Nominatim is called

GeoCalls == 1 .. MaxGeoCalls

Throttlers == {"geocoding", "citySearch"}

ThrottlerOf(fn) == IF fn = "searchCities" THEN "citySearch" ELSE "geocoding"

IsDigit(ch) == ch \in {"0", "1", "2", "3", "4", "5", "6", "7", "8", "9"}

\* postalCode.trim().replace(/\s+/g, "")
cleanedPostalCode(postalCode) == SelectSeq(postalCode, LAMBDA ch : ch # " ")

\* /^\d{5}$/.test(cleanedPostalCode)
ValidPostalCode(cleaned) ==
    Len(cleaned) = 5 /\ \A i \in 1 .. Len(cleaned) : IsDigit(cleaned[i])

\* The function called and its argument: two postal codes (one malformed), a
\* city name, and a city-search query.
GeoArgs ==
    { [fn |-> "geocodePostalCode", arg |-> <<"1", "0", "1", " ", "1", "5">>],
      [fn |-> "geocodePostalCode", arg |-> <<"1", "0", "1">>],
      [fn |-> "geocodeCity", arg |-> <<"B", "e", "r", "l", "i", "n">>],
      [fn |-> "searchCities", arg |-> <<"B", "e", "r">>] }

\* The cache key each function looks up and fills.
GeoCacheKey(fn, arg) ==
    CASE fn = "geocodePostalCode" -> generateGeocodingKey(cleanedPostalCode(arg))
      [] fn = "geocodeCity" ->
            generateGeocodingKey(<<"c", "i", "t", "y", ":">> \o toLowerCase(trim(arg)))
      [] fn = "searchCities" ->
            <<"c", "i", "t", "y", "_", "s", "e", "a", "r", "c", "h", ":">>
                \o toLowerCase(trim(arg))

\* The argument is turned down before anything is looked up or requested:
\* empty (null is returned), a query shorter than 2, a malformed postal code.
GeoRejected(fn, arg) ==
    CASE fn = "geocodePostalCode" ->
            Len(trim(arg)) = 0 \/ ~ValidPostalCode(cleanedPostalCode(arg))
      [] fn = "geocodeCity" -> Len(trim(arg)) = 0
      [] fn = "searchCities" -> Len(trim(arg)) < 2

\* What Nominatim can answer: not ok, ok with no result, ok with results.
NominatimResponses == {"error", "empty", "found"}

\* serverCache.set(cacheKey, coordinates, 24 * 60 * 60 * 1000) and
\* serverCache.set(cacheKey, sortedCities, 60 * 60 * 1000)
GeoTtl(fn) == IF fn = "searchCities" THEN 60 * 60 * 1000 ELSE 24 * 60 * 60 * 1000

\* Whether the answer is cached: the geocoders throw on an empty answer,
\* searchCities caches the empty list.
GeoCaches(fn, resp) ==
    resp = "found" \/ (resp = "empty" /\ fn = "searchCities")

IdleGeoCall == [pc |-> "idle", fn |-> "", arg |-> <<>>, wakeAt |-> 0]

\* throttle() has finished for invocation g: lastRequestTime = Date.now(), and
\* the fetch that follows the await goes out.
GeoRelease(g, call) ==
    /\ throttlers' = [throttlers EXCEPT ![ThrottlerOf(call.fn)] = now]
    /\ released' = Append(released, [fn |-> call.fn, at |-> now])
    /\ geoCalls' = [geoCalls EXCEPT ![g] = [call EXCEPT !.pc = "fetching"]]

\* One of the three functions is called: argument checks, cache lookup, and on
\* a miss throttle() up to its await.
GeoCall(g, a) ==
    LET call == [IdleGeoCall EXCEPT !.fn = a.fn, !.arg = a.arg]
        cacheKey == GeoCacheKey(a.fn, a.arg)
        timeSinceLastRequest == now - throttlers[ThrottlerOf(a.fn)]
    IN  /\ geoCalls[g].pc = "idle"
        /\ IF GeoRejected(a.fn, a.arg)
           THEN UNCHANGED <<cache, geoVars>>
           ELSE /\ cache' = CacheGetMap(cache, cacheKey, now)
                /\ IF CacheGetResult(cache, cacheKey, now) # Absent
                   THEN UNCHANGED geoVars
                   ELSE IF timeSinceLastRequest < minInterval
                   THEN /\ geoCalls' = [geoCalls EXCEPT ![g] =
                               [call EXCEPT !.pc = "waiting",
                                    !.wakeAt = now + (minInterval - timeSinceLastRequest)]]
                        /\ UNCHANGED <<throttlers, released>>
                   ELSE GeoRelease(g, call)
        /\ UNCHANGED <<now, ticks, lastOp, written, throttleVars, calcVars, searchVars,
                     moduleVars, keyVars, uiVars, ratingVars>>

\* The setTimeout of a waiting invocation fires.
GeoResume(g) ==
    /\ geoCalls[g].pc = "waiting"
    /\ now >= geoCalls[g].wakeAt
    /\ GeoRelease(g, geoCalls[g])
    /\ UNCHANGED <<now, ticks, cacheVars, throttleVars, calcVars, searchVars,
                   moduleVars, keyVars, uiVars, ratingVars>>

\* Nominatim answers; the result is cached or the error thrown, and the
\* function returns.
GeoResponse(g) ==
    LET call == geoCalls[g] IN
    /\ call.pc = "fetching"
    /\ \E resp \in NominatimResponses :
          cache' = IF GeoCaches(call.fn, resp)
                   THEN CacheSet(cache, GeoCacheKey(call.fn, call.arg), resp,
                                 Some(GeoTtl(call.fn)), now)
                   ELSE cache
    /\ geoCalls' = [geoCalls EXCEPT ![g] = IdleGeoCall]
    /\ UNCHANGED <<now, ticks, lastOp, written, throttleVars, calcVars, searchVars,
                   throttlers, released, moduleVars, keyVars, uiVars, ratingVars>>

GeoTick ==
    /\ ticks < MaxGeoTicks
    /\ now' = now + (minInterval \div 2)
    /\ ticks' = ticks + 1
    /\ UNCHANGED <<cacheVars, throttleVars, calcVars, searchVars, geoVars, moduleVars, keyVars, uiVars, ratingVars>>

---------------------------------------------------------------------------
(* The cache module's top-level code: the exported instance and the sweep  *)
(* timer.  Instances are numbered in order of creation; importers of the   *)
(* module get the instance of its latest evaluation.                       *)

MaxModuleLoads == 3   \* evaluations of the module's top-level code per run
MaxModuleTicks == 2   \* clock advances per run

\* setInterval(..., 10 * 60 * 1000)
SweepInterval == 10 * 60 * 1000

ModuleKeys == {"rating:abc", "geo:10115"}

\* The instance the module exports after its latest evaluation.
CurrentInstance == loads

\* The module's top-level code runs: const serverCache = new ServerCache(),
\* and, in a server environment with the global flag unset, the flag is set
\* and the interval timer started on this evaluation's instance.
ModuleLoad ==
    /\ loads < MaxModuleLoads
    /\ loads' = loads + 1
    /\ caches' = Append(caches, EmptyCache)
    /\ IF ~cacheCleanupInitialized
       THEN /\ cacheCleanupInitialized' = TRUE
            /\ timers' = Append(timers, [instance |-> loads + 1,
                                         due |-> now + SweepInterval])
       ELSE UNCHANGED <<cacheCleanupInitialized, timers>>
    /\ UNCHANGED <<now, ticks, cacheVars, throttleVars, calcVars, searchVars, geoVars, keyVars, uiVars, ratingVars>>

\* An importer stores an entry (ttl: the sweep interval) in the exported instance.
ModuleSet(k) ==
    /\ loads > 0
    /\ caches' = [caches EXCEPT ![CurrentInstance] =
                     CacheSet(@, k, "v1", Some(SweepInterval), now)]
    /\ UNCHANGED <<now, ticks, cacheVars, throttleVars, calcVars, searchVars, geoVars,
                   loads, cacheCleanupInitialized, timers, keyVars, uiVars, ratingVars>>

\* An importer reads the exported instance.
ModuleGet(k) ==
    /\ loads > 0
    /\ caches' = [caches EXCEPT ![CurrentInstance] = CacheGetMap(@, k, now)]
    /\ UNCHANGED <<now, ticks, cacheVars, throttleVars, calcVars, searchVars, geoVars,
                   loads, cacheCleanupInitialized, timers, keyVars, uiVars, ratingVars>>

\* A timer is due: the callback runs cleanup() on the instance it closed over.
SweepFire(t) ==
    /\ now >= timers[t].due
    /\ caches' = [caches EXCEPT ![timers[t].instance] = CacheCleanup(@, now)]
    /\ timers' = [timers EXCEPT ![t].due = @ + SweepInterval]
    /\ UNCHANGED <<now, ticks, cacheVars, throttleVars, calcVars, searchVars, geoVars,
                   loads, cacheCleanupInitialized, keyVars, uiVars, ratingVars>>

ModuleTick ==
    /\ ticks < MaxModuleTicks
    /\ now' = now + SweepInterval + 1
    /\ ticks' = ticks + 1
    /\ UNCHANGED <<cacheVars, throttleVars, calcVars, searchVars, geoVars, moduleVars, keyVars, uiVars, ratingVars>>

---------------------------------------------------------------------------
(* The pages that call the optimizer: Home (src/pages/index.tsx) and       *)
(* RatingControlsColumn (src/unnamed/part_006).  Ratings are in            *)
(* thousandths of a star; the state `targetRating` is a string.            *)

MaxUiEvents == 3   \* user events handled per run

NoSliders == [one_star |-> 0, two_star |-> 0, three_star |-> 0, four_star |-> 0,
              five_star |-> 0]

\* The businesses selected: rating and distribution as the search API returned
\* them (the last one with a rating that its distribution does not give).
\* Averages of at most 4 reviews round to one decimal without floating-point
\* surprises.
RatingDatas ==
    { [rating |-> 4500, reviews_count |-> 2,
       rating_distribution |-> [NoSliders EXCEPT !.four_star = 1, !.five_star = 1]],
      [rating |-> 4000, reviews_count |-> 4,
       rating_distribution |-> [NoSliders EXCEPT !.one_star = 1, !.five_star = 3]],
      [rating |-> 4300, reviews_count |-> 3,
       rating_distribution |-> [NoSliders EXCEPT !.three_star = 1, !.five_star = 2]],
      [rating |-> 3300, reviews_count |-> 4,
       rating_distribution |-> [NoSliders EXCEPT !.one_star = 1, !.two_star = 1,
                                                 !.five_star = 2]],
      [rating |-> 4800, reviews_count |-> 2,
       rating_distribution |-> [NoSliders EXCEPT !.one_star = 1, !.five_star = 1]] }

DigitChar(d) ==
    CASE d = 0 -> "0" [] d = 1 -> "1" [] d = 2 -> "2" [] d = 3 -> "3" [] d = 4 -> "4"
      [] d = 5 -> "5" [] d = 6 -> "6" [] d = 7 -> "7" [] d = 8 -> "8" [] d = 9 -> "9"

DigitValue(ch) == CHOOSE d \in 0 .. 9 : DigitChar(d) = ch

\* Number.prototype.toString for a rating with at most one decimal: 4.5 is
\* "4.5", 5.0 is "5".
toString(r) ==
    IF r % 1000 = 0 THEN <<DigitChar(r \div 1000)>>
    ELSE <<DigitChar(r \div 1000), ".", DigitChar((r % 1000) \div 100)>>

\* Number.prototype.toFixed(1) for such a rating: 5.0 is "5.0".
toFixed(r) == <<DigitChar(r \div 1000), ".", DigitChar((r % 1000) \div 100)>>

\* parseFloat of these strings; absent for NaN (the empty string).
parseFloat(str) ==
    IF str = <<>> THEN Absent
    ELSE IF Len(str) = 1 THEN Some(1000 * DigitValue(str[1]))
    ELSE Some(1000 * DigitValue(str[1]) + 100 * DigitValue(str[3]))

\* targetRatingOptions of Home
targetRatingOptionsHome == {4000, 4200, 4500, 4700, 4800, 4900, 5000}

\* targetRatingOptions of RatingControlsColumn
targetRatingOptions == {4100, 4200, 4300, 4400, 4500, 4600, 4700, 4800, 4900, 5000}

\* validRatings.includes(rating); NaN is in no list
isValidTargetRating(rating) ==
    rating # Absent /\ rating[1] \in {4000, 4200, 4500, 4700, 4800, 4900, 5000}

\* The error message, absent for null.
validateTargetRating(target, currentRating) ==
    IF target <= currentRating THEN Some("Das Zielrating muss hoeher als das aktuelle Rating sein.")
    ELSE IF target > 5000 THEN Some("Das Zielrating kann nicht hoeher als 5.0 sein.")
    ELSE IF target < 0 THEN Some("Das Zielrating muss positiv sein.")
    ELSE Absent

\* One call of the optimizer as it is made: where from, with which arguments,
\* whether validateTargetRating was evaluated first and returned null, and
\* what came back.
OptimizerCall(site, currentRating, target, b, validated) ==
    [site |-> site, currentRating |-> currentRating, targetRating |-> target,
     breakdown |-> b, validated |-> validated,
     result |-> calculateReviewsToRemove(currentRating, target, b)]

\* Math.abs(achievedRating - targetRating) < 0.01
WithinTolerance(achieved, target) ==
    (IF achieved >= target THEN achieved - target ELSE target - achieved) < 10

\* isTargetRatingAchievable(targetRating): the call it makes, and its answer.
AchievableCall(target) ==
    OptimizerCall("isTargetRatingAchievable", ratingData.rating, target,
                  ratingData.rating_distribution, FALSE)

isTargetRatingAchievable(target) ==
    WithinTolerance(AchievableCall(target).result.projectedRating, target)

\* The buttons Home renders: .filter(rating => !ratingData || rating > ratingData.rating)
OfferedOptionsHome == {r \in targetRatingOptionsHome : r > ratingData.rating}

\* The options RatingControlsColumn tests while rendering
\* (rating >= ratingData.rating && ...), and the radio buttons it renders.
TestedOptionsControls == {r \in targetRatingOptions : r >= ratingData.rating}

OfferedOptionsControls == {r \in TestedOptionsControls : isTargetRatingAchievable(r)}

\* The optimizer calls of one render of RatingControlsColumn.
RenderCalls == {AchievableCall(r) : r \in TestedOptionsControls}

isAtOriginalDistribution(sl) == sl = ratingData.rating_distribution

\* calculateRatingFromSliders(), absent for null
calculateRatingFromSliders(sl) ==
    IF totalReviews(sl) = 0 THEN Absent
    ELSE IF isAtOriginalDistribution(sl) THEN Some(ratingData.rating)
    ELSE Some(100 * RoundHalfUp(currentScore(sl), totalReviews(sl), 10))

\* The effect "Sync target rating selection with slider-calculated rating":
\* the value of `targetRating` once it has run.
SyncTarget(sl, target) ==
    LET sliderRating == calculateRatingFromSliders(sl)
        matching == IF sliderRating = Absent THEN {}
                    ELSE {o \in targetRatingOptions : WithinTolerance(o, sliderRating[1])}
    IN  IF matching # {} /\ target # toString(CHOOSE o \in matching : TRUE)
        THEN toString(CHOOSE o \in matching : TRUE)
        ELSE target

Max0(n) == IF n > 0 THEN n ELSE 0

\* calculateRemovalsFromSliders(customSliders), absent for null
calculateRemovalsFromSliders(sl) ==
    IF totalReviews(sl) = 0 THEN Absent
    ELSE IF isAtOriginalDistribution(sl)
    THEN Some([targetRating |-> ratingData.rating,
               reviewsToRemove |-> NoneRemoved,
               reviewsToAdd |-> [fiveStar |-> 0],
               projectedRating |-> ratingData.rating,
               projectedIsNaN |-> FALSE,
               strategy |-> "remove"])
    ELSE LET cur == ratingData.rating_distribution
             rounded == 100 * RoundHalfUp(currentScore(sl), totalReviews(sl), 10)
         IN  Some([targetRating |-> rounded,
                   reviewsToRemove |->
                       [oneStar   |-> Max0(cur.one_star - sl.one_star),
                        twoStar   |-> Max0(cur.two_star - sl.two_star),
                        threeStar |-> Max0(cur.three_star - sl.three_star),
                        fourStar  |-> Max0(cur.four_star - sl.four_star),
                        fiveStar  |-> Max0(cur.five_star - sl.five_star)],
                   reviewsToAdd |-> [fiveStar |-> 0],
                   projectedRating |-> rounded,
                   projectedIsNaN |-> FALSE,
                   strategy |-> "remove"])

\* The first render and the effects after it: the sliders take the
\* distribution, RatingControlsColumn tests its options (one optimizer call
\* each) and syncs the selection.
Render ==
    /\ uiPc = "mounted"
    /\ uiPc' = "rendered"
    /\ sliders' = ratingData.rating_distribution
    /\ IF component = "RatingControlsColumn"
       THEN /\ optimizerCalls' = optimizerCalls \cup RenderCalls
            /\ selectedTarget' = SyncTarget(ratingData.rating_distribution, selectedTarget)
       ELSE UNCHANGED <<optimizerCalls, selectedTarget>>
    /\ UNCHANGED <<now, ticks, cacheVars, throttleVars, calcVars, searchVars, geoVars,
                   moduleVars, keyVars, component, ratingData, calculationResult,
                   validationError, uiEvents, ratingVars>>

\* Home: handleTargetRatingChange(rating.toString()), a click on an offered button
handleTargetRatingChangeHome(value) ==
    /\ component = "Home"
    /\ uiPc = "rendered"
    /\ uiEvents < MaxUiEvents
    /\ uiEvents' = uiEvents + 1
    /\ selectedTarget' = toString(value)
    /\ calculationResult' = Absent
    /\ validationError' = ""
    /\ UNCHANGED <<now, ticks, cacheVars, throttleVars, calcVars, searchVars, geoVars,
                   moduleVars, keyVars, component, ratingData, sliders, optimizerCalls,
                   uiPc, ratingVars>>

\* Home: onValueChange={setFiveStarSlider} and its four siblings, min 0,
\* max ratingData.reviews_count
SliderChangeHome(tier, value) ==
    /\ component = "Home"
    /\ uiPc = "rendered"
    /\ uiEvents < MaxUiEvents
    /\ uiEvents' = uiEvents + 1
    /\ sliders' = [sliders EXCEPT ![tier] = value]
    /\ UNCHANGED <<now, ticks, cacheVars, throttleVars, calcVars, searchVars, geoVars,
                   moduleVars, keyVars, component, ratingData, selectedTarget,
                   calculationResult, validationError, optimizerCalls, uiPc, ratingVars>>

\* Home: handleCalculate, the button shown once a target is selected
handleCalculate ==
    /\ component = "Home"
    /\ uiPc = "rendered"
    /\ selectedTarget # <<>>
    /\ uiEvents < MaxUiEvents
    /\ uiEvents' = uiEvents + 1
    /\ LET target == parseFloat(selectedTarget)
       IN  IF ~isValidTargetRating(target)
           THEN /\ validationError' = "Bitte waehlen Sie ein gueltiges Zielrating aus."
                /\ UNCHANGED <<calculationResult, optimizerCalls>>
           ELSE LET error == validateTargetRating(target[1], ratingData.rating)
                IN  IF error # Absent
                    THEN /\ validationError' = error[1]
                         /\ UNCHANGED <<calculationResult, optimizerCalls>>
                    ELSE LET call == OptimizerCall("handleCalculate", ratingData.rating,
                                                   target[1], sliders, TRUE)
                         IN  /\ validationError' = ""
                             /\ optimizerCalls' = optimizerCalls \cup {call}
                             /\ calculationResult' = Some(call.result)
    /\ UNCHANGED <<now, ticks, cacheVars, throttleVars, calcVars, searchVars, geoVars,
                   moduleVars, keyVars, component, ratingData, selectedTarget, sliders,
                   uiPc, ratingVars>>

\* The distribution handleTargetRatingChange shows for a plan that reached the
\* target.
finalDistribution(result) ==
    LET cur == ratingData.rating_distribution
    IN  [one_star   |-> cur.one_star - result.reviewsToRemove.oneStar,
         two_star   |-> cur.two_star - result.reviewsToRemove.twoStar,
         three_star |-> cur.three_star - result.reviewsToRemove.threeStar,
         four_star  |-> cur.four_star - result.reviewsToRemove.fourStar,
         five_star  |-> cur.five_star - result.reviewsToRemove.fiveStar
                            + result.reviewsToAdd.fiveStar]

\* The approximation of handleTargetRatingChange for a plan that missed the
\* target: both loops lower currentScore, so each empties its tier once
\* entered.  targetScore = target * ratingData.reviews_count.
bestDistribution(target) ==
    LET cur == ratingData.rating_distribution
        targetScore == target * ratingData.reviews_count
        dropOnes == 1000 * currentScore(cur) < targetScore /\ cur.one_star > 0
        afterOnes == IF dropOnes THEN [cur EXCEPT !.one_star = 0] ELSE cur
        dropTwos == 1000 * currentScore(afterOnes) < targetScore /\ cur.two_star > 0
    IN  IF dropTwos THEN [afterOnes EXCEPT !.two_star = 0] ELSE afterOnes

\* RatingControlsColumn: handleTargetRatingChange(e.target.value), a click on
\* an offered radio button, the re-render and the sync effect after it.
handleTargetRatingChange(value) ==
    /\ component = "RatingControlsColumn"
    /\ uiPc = "rendered"
    /\ uiEvents < MaxUiEvents
    /\ uiEvents' = uiEvents + 1
    /\ validationError' = ""
    /\ LET target == parseFloat(toString(value))
       IN  IF isValidTargetRating(target)
           THEN LET call == OptimizerCall("handleTargetRatingChange", ratingData.rating,
                                          target[1], ratingData.rating_distribution,
                                          FALSE)
                    result == call.result
                    reached == WithinTolerance(result.projectedRating, target[1])
                    newSliders == IF reached THEN finalDistribution(result)
                                  ELSE bestDistribution(target[1])
                    approximateResult == calculateRemovalsFromSliders(newSliders)
                IN  /\ optimizerCalls' = optimizerCalls \cup {call} \cup RenderCalls
                    /\ sliders' = newSliders
                    /\ calculationResult' =
                           IF reached THEN Some(result)
                           ELSE IF approximateResult # Absent THEN approximateResult
                           ELSE calculationResult
                    /\ selectedTarget' = SyncTarget(newSliders, toString(value))
           ELSE /\ optimizerCalls' = optimizerCalls \cup RenderCalls
                /\ sliders' = ratingData.rating_distribution
                /\ calculationResult' = calculationResult
                /\ selectedTarget' = SyncTarget(ratingData.rating_distribution,
                                                toString(value))
    /\ UNCHANGED <<now, ticks, cacheVars, throttleVars, calcVars, searchVars, geoVars,
                   moduleVars, keyVars, component, ratingData, uiPc, ratingVars>>

\* RatingControlsColumn: handleSliderChange(sliderType, value), min 0, max the
\* tier's count, the re-render and the sync effect after it.
handleSliderChange(tier, value) ==
    /\ component = "RatingControlsColumn"
    /\ uiPc = "rendered"
    /\ uiEvents < MaxUiEvents
    /\ uiEvents' = uiEvents + 1
    /\ LET currentSliders == [sliders EXCEPT ![tier] = value]
           finalRating == calculateRatingFromSliders(currentSliders)
       IN  /\ sliders' = currentSliders
           /\ IF finalRating # Absent
              THEN /\ selectedTarget' = SyncTarget(currentSliders, toFixed(finalRating[1]))
                   /\ calculationResult' = calculateRemovalsFromSliders(currentSliders)
              ELSE /\ selectedTarget' = SyncTarget(currentSliders, selectedTarget)
                   /\ UNCHANGED calculationResult
    /\ optimizerCalls' = optimizerCalls \cup RenderCalls
    /\ UNCHANGED <<now, ticks, cacheVars, throttleVars, calcVars, searchVars, geoVars,
                   moduleVars, keyVars, component, ratingData, validationError, uiPc, ratingVars>>

---------------------------------------------------------------------------
(* The /api/rating handler (src/pages/api/rating.ts:398-601).  Ratings are *)
(* in thousandths of a star.                                               *)

MaxRatingRequests == 3   \* requests to /api/rating per run
MaxRatingTicks    == 3   \* clock advances per run while ratings are requested

\* 24 * 60 * 60 * 1000
RatingTtl == 24 * HourMs

\* `${value}` inside a template literal, for a string that may be undefined
TemplateText(value) ==
    IF value = Absent THEN <<"u", "n", "d", "e", "f", "i", "n", "e", "d">> ELSE value[1]

\* The business listings a client selects from a search result: two that
\* carry a place_id and two that carry none.  All have a cid and coordinates.
Listings ==
    { [cid |-> "cid1", title |-> "Cafe A", place_id |-> Some(<<"p", "1">>)],
      [cid |-> "cid2", title |-> "Cafe B", place_id |-> Some(<<"p", "2">>)],
      [cid |-> "cid3", title |-> "Cafe C", place_id |-> Absent],
      [cid |-> "cid4", title |-> "Cafe D", place_id |-> Absent] }

NoListing == [cid |-> "", title |-> "", place_id |-> Absent]

\* What My Business Info reports as rating.value of each business, now or
\* later: no two businesses have a rating in common, so a rating tells which
\* business it was fetched for.
UpstreamRatings(cid) ==
    CASE cid = "cid1" -> {4100, 4200}
      [] cid = "cid2" -> {3500, 3600}
      [] cid = "cid3" -> {2800, 2900}
      [] cid = "cid4" -> {4700, 4800}

\* keyword of the My Business Info request: `cid:${businessListing.cid}` for a
\* listing with cid and coordinates; the legacy workflow searches by the
\* business name, which finds the same business.
RequestedBusiness(call) == call.listing.cid

\* finalPlaceId: businessListing.place_id in the listing workflow, place_id of
\* the body in the legacy one.
finalPlaceId(call) == call.listing.place_id

\* transformMyBusinessInfoToStats(reviewsData, finalPlaceId): the place_id is
\* the one of the request, the rating the one reported.
transformMyBusinessInfoToStats(rating, place_id) ==
    [place_id |-> place_id, rating |-> rating]

\* The mock ReviewStats returned without credentials.
mockReviewStats(call) ==
    [place_id |-> IF call.workflow = "legacy" THEN call.listing.place_id ELSE Absent,
     rating |-> 4200]

IdleRating ==
    [pc |-> "idle", workflow |-> "none", listing |-> NoListing, bypassCache |-> FALSE,
     cacheKey |-> <<>>, fromCache |-> FALSE, response |-> Absent]

RatingResponse(status, data) == Some([status |-> status, data |-> data])

\* The handler up to its first await: the checks of the body, the mock answer
\* without credentials, the cache lookup and the answer from the cache.
RatingRequest(workflow, listing, bypassCache, credentials) ==
    LET call == [IdleRating EXCEPT !.workflow = workflow, !.listing = listing,
                                   !.bypassCache = bypassCache]
        cacheKey == generateRatingKey(TemplateText(finalPlaceId(call)))
        cachedResult == CacheGetResult(cache, cacheKey, now)
    IN  /\ ratingCall.pc = "idle"
        /\ ratingCount < MaxRatingRequests
        /\ ratingCount' = ratingCount + 1
        /\ IF workflow = "legacy" /\ listing.place_id = Absent
           THEN /\ ratingCall' = [call EXCEPT !.pc = "responded",
                                              !.response = RatingResponse(400, Absent)]
                /\ UNCHANGED cache
           ELSE IF ~credentials
           THEN /\ ratingCall' = [call EXCEPT !.pc = "responded",
                                      !.response = RatingResponse(200,
                                                       Some(mockReviewStats(call)))]
                /\ UNCHANGED cache
           ELSE IF ~bypassCache
           THEN /\ cache' = CacheGetMap(cache, cacheKey, now)
                /\ IF cachedResult # Absent
                   THEN ratingCall' = [call EXCEPT !.pc = "responded",
                                           !.cacheKey = cacheKey, !.fromCache = TRUE,
                                           !.response = RatingResponse(200, cachedResult)]
                   ELSE ratingCall' = [call EXCEPT !.pc = "fetching",
                                                   !.cacheKey = cacheKey]
           ELSE /\ ratingCall' = [call EXCEPT !.pc = "fetching", !.cacheKey = cacheKey]
                /\ UNCHANGED cache
        /\ UNCHANGED <<now, ticks, lastOp, written, throttleVars, calcVars, searchVars,
                       geoVars, moduleVars, keyVars, uiVars>>

\* My Business Info has answered: statistics of the business asked for, which
\* are cached for 24 hours and returned; or no data (500), a task without
\* items (202), or an error (500), none of which touches the cache.
RatingUpstream(outcome) ==
    /\ ratingCall.pc = "fetching"
    /\ IF outcome = "data"
       THEN \E rating \in UpstreamRatings(RequestedBusiness(ratingCall)) :
               LET reviewStats == transformMyBusinessInfoToStats(rating,
                                      finalPlaceId(ratingCall))
               IN  /\ cache' = CacheSet(cache, ratingCall.cacheKey, reviewStats,
                                        Some(RatingTtl), now)
                   /\ ratingCall' = [ratingCall EXCEPT !.pc = "responded",
                                        !.response = RatingResponse(200, Some(reviewStats))]
       ELSE /\ ratingCall' = [ratingCall EXCEPT !.pc = "responded",
                                 !.response = RatingResponse(
                                     IF outcome = "notReady" THEN 202 ELSE 500, Absent)]
            /\ UNCHANGED cache
    /\ UNCHANGED <<now, ticks, lastOp, written, throttleVars, calcVars, searchVars,
                   geoVars, moduleVars, keyVars, uiVars, ratingCount>>

\* The response has been sent; the next request can come.
RatingSent ==
    /\ ratingCall.pc = "responded"
    /\ ratingCall' = IdleRating
    /\ UNCHANGED <<now, ticks, cacheVars, throttleVars, calcVars, searchVars, geoVars,
                   moduleVars, keyVars, uiVars, ratingCount>>

RatingTick ==
    /\ ticks < MaxRatingTicks
    /\ now' = now + 12 * HourMs
    /\ ticks' = ticks + 1
    /\ UNCHANGED <<cacheVars, throttleVars, calcVars, searchVars, geoVars, moduleVars,
                   keyVars, uiVars, ratingVars>>

RatingInit ==
    /\ ratingCall = IdleRating
    /\ ratingCount = 0

RatingNext ==
    \/ \E workflow \in {"listing", "legacy"}, listing \in Listings,
          bypassCache \in BOOLEAN, credentials \in BOOLEAN :
          RatingRequest(workflow, listing, bypassCache, credentials)
    \/ \E outcome \in {"data", "null", "notReady", "throw"} : RatingUpstream(outcome)
    \/ RatingSent
    \/ RatingTick


---------------------------------------------------------------------------
(* Specifications                                                          *)

CacheInit ==
    /\ cache = EmptyCache
    /\ lastOp = NoOp
    /\ written = [k \in TestKeys |-> Absent]

ThrottleInit ==
    /\ lastRequestTime = 0
    /\ tpc = [c \in Callers |-> "idle"]
    /\ wakeAt = [c \in Callers |-> 0]
    /\ startedAt = [c \in Callers |-> 0]
    /\ completions = <<>>

CalcIdle ==
    /\ revision = "current"
    /\ breakdown = [one_star |-> 0, two_star |-> 0, three_star |-> 0,
                    four_star |-> 0, five_star |-> 0]
    /\ targetRating = 0
    /\ plan = NoPlan
    /\ cpc = "idle"

SearchInit ==
    /\ calls = [c \in SearchCalls |-> IdleCall]
    /\ invoked = 0

GeoInit ==
    /\ throttlers = [t \in Throttlers |-> 0]
    /\ geoCalls = [g \in GeoCalls |-> IdleGeoCall]
    /\ released = <<>>

\* The process before the cache module has been evaluated.
ModuleInit ==
    /\ loads = 0
    /\ cacheCleanupInitialized = FALSE
    /\ timers = <<>>
    /\ caches = <<>>

KeyIdle ==
    /\ keyArgs = [x |-> <<>>, y |-> <<>>, z |-> <<>>]
    /\ builtKeys = Absent

\* The key builders about to be called with any arguments.
KeyInit ==
    /\ keyArgs \in [x : KeyArgs, y : KeyArgs, z : PlaceIds]
    /\ builtKeys = Absent

\* No page mounted.
UiIdle ==
    /\ component = "none"
    /\ ratingData = [rating |-> 0, reviews_count |-> 0, rating_distribution |-> NoSliders]
    /\ selectedTarget = <<>>
    /\ calculationResult = Absent
    /\ validationError = ""
    /\ sliders = NoSliders
    /\ optimizerCalls = {}
    /\ uiPc = "none"
    /\ uiEvents = 0

\* Either component mounted with the rating data of a selected business: the
\* useState initial values.
UiInit ==
    /\ component \in {"Home", "RatingControlsColumn"}
    /\ ratingData \in RatingDatas
    /\ selectedTarget = <<>>
    /\ calculationResult = Absent
    /\ validationError = ""
    /\ sliders = NoSliders
    /\ optimizerCalls = {}
    /\ uiPc = "mounted"
    /\ uiEvents = 0

\* The optimizer about to be called with any distribution and target.
CalcInit ==
    /\ revision \in {"current", "buffered"}
    /\ breakdown \in Breakdowns
    /\ targetRating \in Targets
    /\ plan = NoPlan
    /\ cpc = "ready"

Init ==
    /\ now = StartTime
    /\ ticks = 0
    /\ CacheInit
    /\ ThrottleInit
    /\ CalcIdle
    /\ SearchInit
    /\ GeoInit
    /\ ModuleInit
    /\ KeyIdle
    /\ UiIdle
    /\ RatingInit

InitCalc ==
    /\ now = StartTime
    /\ ticks = 0
    /\ CacheInit
    /\ ThrottleInit
    /\ CalcInit
    /\ SearchInit
    /\ GeoInit
    /\ ModuleInit
    /\ KeyIdle
    /\ UiIdle
    /\ RatingInit

InitKeys ==
    /\ now = StartTime
    /\ ticks = 0
    /\ CacheInit
    /\ ThrottleInit
    /\ CalcIdle
    /\ SearchInit
    /\ GeoInit
    /\ ModuleInit
    /\ KeyInit
    /\ UiIdle
    /\ RatingInit

KeyNext == BuildKeys

InitUi ==
    /\ now = StartTime
    /\ ticks = 0
    /\ CacheInit
    /\ ThrottleInit
    /\ CalcIdle
    /\ SearchInit
    /\ GeoInit
    /\ ModuleInit
    /\ KeyIdle
    /\ UiInit
    /\ RatingInit

UiNext ==
    \/ Render
    \/ \E value \in OfferedOptionsHome : handleTargetRatingChangeHome(value)
    \/ \E tier \in DOMAIN NoSliders, value \in 0 .. ratingData.reviews_count :
          SliderChangeHome(tier, value)
    \/ handleCalculate
    \/ \E value \in OfferedOptionsControls : handleTargetRatingChange(value)
    \/ \E tier \in DOMAIN NoSliders :
          \E value \in 0 .. ratingData.rating_distribution[tier] :
             handleSliderChange(tier, value)

\* Searches for the pages of one query, one after another, while time passes.
PagesNext ==
    \/ \E c \in SearchCalls, args \in PageArgs, bypassCache \in BOOLEAN :
          SearchCall(c, args, bypassCache)
    \/ \E c \in SearchCalls : TitleResponse(c)
    \/ \E c \in SearchCalls : DescriptionResponse(c)
    \/ \E c \in SearchCalls : CategoryResponse(c)
    \/ \E c \in SearchCalls : SearchReturn(c)
    \/ SearchTick

\* Searches whose query or location text holds a colon.
AmbiguousNext ==
    \/ \E c \in SearchCalls, args \in AmbiguousArgs, bypassCache \in BOOLEAN :
          SearchCall(c, args, bypassCache)
    \/ \E c \in SearchCalls : TitleResponse(c)
    \/ \E c \in SearchCalls : DescriptionResponse(c)
    \/ \E c \in SearchCalls : CategoryResponse(c)
    \/ \E c \in SearchCalls : SearchReturn(c)
    \/ SearchTick

CalcNext ==
    \/ Calculate
    \/ CalculateBuffered

CacheNext ==
    \/ \E k \in TestKeys, v \in TestData, ttl \in TestTtls : Set(k, v, ttl)
    \/ \E k \in TestKeys : Get(k)
    \/ \E k \in TestKeys : Has(k)
    \/ \E k \in TestKeys : Delete(k)
    \/ Clear
    \/ Cleanup
    \/ CacheTick

ThrottleNext ==
    \/ \E c \in Callers : ThrottleCall(c)
    \/ \E c \in Callers : ThrottleResume(c)
    \/ ThrottleTick

SearchNext ==
    \/ \E c \in SearchCalls, args \in SearchArgs, bypassCache \in BOOLEAN :
          SearchCall(c, args, bypassCache)
    \/ \E c \in SearchCalls : TitleResponse(c)
    \/ \E c \in SearchCalls : DescriptionResponse(c)
    \/ \E c \in SearchCalls : CategoryResponse(c)
    \/ \E c \in SearchCalls : SearchReturn(c)
    \/ Clear
    \/ Cleanup
    \/ SearchTick

GeoNext ==
    \/ \E g \in GeoCalls, a \in GeoArgs : GeoCall(g, a)
    \/ \E g \in GeoCalls : GeoResume(g)
    \/ \E g \in GeoCalls : GeoResponse(g)
    \/ GeoTick

ModuleNext ==
    \/ ModuleLoad
    \/ \E k \in ModuleKeys : ModuleSet(k)
    \/ \E k \in ModuleKeys : ModuleGet(k)
    \/ \E t \in 1 .. Len(timers) : SweepFire(t)
    \/ ModuleTick

SpecCache    == Init /\ [][CacheNext]_vars
SpecThrottle == Init /\ [][ThrottleNext]_vars
SpecCalc     == InitCalc /\ [][CalcNext]_vars
SpecSearch   == Init /\ [][SearchNext]_vars
SpecPages    == Init /\ [][PagesNext]_vars
SpecAmbiguous == Init /\ [][AmbiguousNext]_vars
SpecRating   == Init /\ [][RatingNext]_vars
SpecGeo      == Init /\ [][GeoNext]_vars
SpecModule   == Init /\ [][ModuleNext]_vars
SpecKeys     == InitKeys /\ [][KeyNext]_vars
SpecUi       == InitUi /\ [][UiNext]_vars

---------------------------------------------------------------------------
(* Claims about the throttler                                              *)

\* Two throttle() calls were in progress together: each started no later than
\* the other completed.
Overlap(a, b) == a.started <= b.at /\ b.started <= a.at

\* C1: throttle() calls of one RequestThrottler that are in progress together
\* complete at times pairwise at least minInterval apart.
ThrottleSpacing ==
    \A i, j \in 1 .. Len(completions) :
        (i < j /\ Overlap(completions[i], completions[j]))
            => completions[j].at - completions[i].at >= minInterval

\* The completion time of the throttle() call that completed last, 0 (the
\* field's initial value) before any has.
LastCompletion ==
    IF completions = <<>> THEN 0 ELSE completions[Len(completions)].at

\* lastRequestTime is the completion time of the latest completed call, also
\* while callers are suspended in their wait; and a call that started after
\* another one had returned completes at least minInterval after it.
ThrottleStateSettled ==
    /\ lastRequestTime = LastCompletion
    /\ \A i, j \in 1 .. Len(completions) :
           (i < j /\ completions[j].started > completions[i].at)
               => completions[j].at - completions[i].at >= minInterval

\* lastRequestTime is written only by the step with which a call returns, and
\* every such step writes the current time.
ThrottleWritesLast ==
    /\ lastRequestTime' # lastRequestTime
           => \E c \in Callers : tpc[c] # "done" /\ tpc'[c] = "done"
    /\ \A c \in Callers :
           (tpc[c] # "done" /\ tpc'[c] = "done")
               => /\ lastRequestTime' = now
                  /\ Len(completions') = Len(completions) + 1
    /\ \A c \in Callers :
           (tpc[c] = "idle" /\ tpc'[c] = "waiting") => lastRequestTime' = lastRequestTime

\* C25: throttle() writes lastRequestTime once per call, as its final step
\* after the wait; while a caller waits the field holds the completion time of
\* the latest completed call; and calls made one after the other complete at
\* least minInterval apart.
ThrottleWriteIsFinalStep == []ThrottleStateSettled /\ [][ThrottleWritesLast]_vars

\* C25 witness: a call made after the previous one had returned had to wait
\* and has completed exactly minInterval after it.
SequentialCallWaited ==
    \E i, j \in 1 .. Len(completions) :
        /\ i < j
        /\ completions[j].started > completions[i].at
        /\ completions[j].at > completions[j].started
        /\ completions[j].at - completions[i].at = minInterval

---------------------------------------------------------------------------
(* Claims about the cache                                                  *)

\* C2: get() and has() never report an entry whose expiry has passed, they
\* remove such an entry from the Map (so getStats() no longer lists its key),
\* they report an unexpired entry, and has(k) agrees with get(k).
CacheNeverServesExpired ==
    /\ lastOp.op \in {"get", "has"} =>
          LET k     == lastOp.key
              found == IF lastOp.op = "get" THEN lastOp.ret # Absent
                                            ELSE lastOp.ret = Some(TRUE)
          IN  /\ lastOp.seen = Absent => ~found
              /\ (lastOp.seen # Absent /\ now > lastOp.seen[1].expiresAt) =>
                     /\ ~found
                     /\ k \notin CacheStats(cache).keys
              /\ (lastOp.seen # Absent /\ now <= lastOp.seen[1].expiresAt) =>
                     /\ found
                     /\ lastOp.op = "get" => lastOp.ret = Some(lastOp.seen[1].data)
                     /\ k \in CacheStats(cache).keys
    /\ \A k \in TestKeys :
          /\ CacheHasResult(cache, k, now) = (CacheGetResult(cache, k, now) # Absent)
          /\ CacheHasMap(cache, k, now) = CacheGetMap(cache, k, now)

\* C2 witness: a get() has just observed an entry past its expiry.
CacheExpiredEntryObserved ==
    /\ lastOp.op = "get"
    /\ lastOp.seen # Absent
    /\ now > lastOp.seen[1].expiresAt

\* The ttl a caller asks for: the argument, or 24 h when it is omitted.
RequestedTtl(ttl) == IF ttl = Absent THEN defaultTTLBusiness ELSE ttl[1]

\* C3: right after set(k, v, ttl) a get(k) returns v, and once the clock is past
\* the time of the latest set(k, ..) plus its ttl (24 h when omitted) get(k)
\* returns absent.
CacheRoundTrip ==
    /\ lastOp.op = "set" =>
          CacheGetResult(cache, lastOp.key, now) = Some(lastOp.data)
    /\ \A k \in TestKeys :
          (written[k] # Absent /\ now > written[k][1].at + RequestedTtl(written[k][1].ttl))
              => CacheGetResult(cache, k, now) = Absent

\* The instants at which a later get() is tried.
LaterTimes == {now, now + 1, now + HourMs, now + defaultTTLBusiness + 1}

\* C14: cleanup() run now removes every entry whose expiry has passed and
\* keeps every other entry as it is; a second run at the same instant changes
\* nothing; and a get() of any key at any later instant returns the same with
\* or without the sweep.
CleanupSweepsExactlyExpired ==
    LET swept == CacheCleanup(cache, now)
    IN  /\ \A k \in DOMAIN cache :
              IF now > cache[k].expiresAt
              THEN k \notin DOMAIN swept
              ELSE k \in DOMAIN swept /\ swept[k] = cache[k]
        /\ DOMAIN swept \subseteq DOMAIN cache
        /\ CacheCleanup(swept, now) = swept
        /\ \A k \in TestKeys, t \in LaterTimes :
              CacheGetResult(swept, k, t) = CacheGetResult(cache, k, t)
        /\ lastOp.op = "cleanup" => \A k \in DOMAIN cache : now <= cache[k].expiresAt

\* C14 witness: the cache holds an entry past its expiry and one not yet
\* expired, so the sweep has one to remove and one to keep.
CleanupHasBothKinds ==
    \E k1, k2 \in DOMAIN cache :
        /\ now > cache[k1].expiresAt
        /\ now <= cache[k2].expiresAt

---------------------------------------------------------------------------
(* Claims about the optimizer                                              *)

\* Every way of removing reviews of one to four stars from b.
Removals(b) ==
    [oneStar : 0 .. b.one_star, twoStar : 0 .. b.two_star,
     threeStar : 0 .. b.three_star, fourStar : 0 .. b.four_star, fiveStar : {0}]

TotalAfter(b, r) == totalReviews(b) - SumRemoved(r)

ScoreAfter(b, r) ==
    currentScore(b) - (r.oneStar + 2 * r.twoStar + 3 * r.threeStar
                          + 4 * r.fourStar + 5 * r.fiveStar)

\* Removing r leaves reviews whose average, rounded to the three decimals the
\* optimizer compares at, is at least the target.
ReachesTarget(b, r, target) ==
    /\ TotalAfter(b, r) > 0
    /\ RoundHalfUp(ScoreAfter(b, r), TotalAfter(b, r), 1000) >= target

\* C4: when some removal of 1-4 star reviews reaches the target, the plan of
\* calculateReviewsToRemove reaches it and no removal that reaches it removes
\* fewer reviews.
RemovalPlanMinimal ==
    (/\ cpc = "returned"
     /\ revision = "current"
     /\ \E r \in Removals(breakdown) : ReachesTarget(breakdown, r, targetRating))
    => /\ ReachesTarget(breakdown, plan.reviewsToRemove, targetRating)
       /\ \A r \in Removals(breakdown) :
              ReachesTarget(breakdown, r, targetRating)
                  => SumRemoved(r) >= SumRemoved(plan.reviewsToRemove)

\* C4 witness: a plan that removes from two tiers and reaches its target,
\* while keeping a removable review.
RemovalPlanAcrossTiers ==
    /\ cpc = "returned"
    /\ revision = "current"
    /\ plan.reviewsToRemove.oneStar > 0
    /\ plan.reviewsToRemove.twoStar > 0
    /\ breakdown.four_star > plan.reviewsToRemove.fourStar
    /\ ReachesTarget(breakdown, plan.reviewsToRemove, targetRating)

\* C5: a returned plan with strategy "remove" removes no five-star review.
NeverRemoveFiveStar ==
    (cpc = "returned" /\ plan.strategy = "remove")
        => plan.reviewsToRemove.fiveStar = 0

\* Some removal of 1-4 star reviews leaves an average of at least the target.
RemovalCanReach(b, target) ==
    \E r \in Removals(b) :
        /\ TotalAfter(b, r) > 0
        /\ 1000 * ScoreAfter(b, r) >= target * TotalAfter(b, r)

\* The removals of the returned plan applied to the distribution: the average
\* of what is left, rounded to 2 decimals, is at least the target.
ReappliedRemovalReaches ==
    LET total == TotalAfter(breakdown, plan.reviewsToRemove)
        score == ScoreAfter(breakdown, plan.reviewsToRemove)
    IN  /\ total > 0
        /\ 10 * RoundHalfUp(score, total, 100) >= targetRating

\* The additions of the returned plan applied to the distribution: the average,
\* rounded as that revision rounds (1 decimal), is projectedRating; with no
\* review at all both are NaN.
ReappliedAdditionReproduces ==
    LET total == totalReviews(breakdown) + plan.reviewsToAdd.fiveStar
        score == currentScore(breakdown) + 5 * plan.reviewsToAdd.fiveStar
    IN  IF total = 0
        THEN plan.projectedIsNaN
        ELSE /\ ~plan.projectedIsNaN
             /\ plan.projectedRating = 100 * RoundHalfUp(score, total, 10)

RemovedFor(b, t) ==
    SumRemoved(calculateReviewsToRemove(DisplayedRating(b), t, b).reviewsToRemove)

\* C7: for a fixed distribution, the plan for a higher target removes at least
\* as many reviews as the plan for a lower target.
RemovalMonotone ==
    (cpc = "returned" /\ revision = "current")
    => \A t \in Targets :
          /\ t <= targetRating
                => RemovedFor(breakdown, t) <= SumRemoved(plan.reviewsToRemove)
          /\ t >= targetRating
                => RemovedFor(breakdown, t) >= SumRemoved(plan.reviewsToRemove)

\* C7 witness: a lower target that already needs removals, and a returned plan
\* for a higher target that needs strictly more.
RemovalGrowsWithTarget ==
    /\ cpc = "returned"
    /\ revision = "current"
    /\ \E t \in Targets :
          /\ t < targetRating
          /\ 0 < RemovedFor(breakdown, t)
          /\ RemovedFor(breakdown, t) < SumRemoved(plan.reviewsToRemove)

\* The two candidate plans of the buffered revision for the call at hand, and
\* their numbers of edited reviews.
RemovalCandidate == calculateMinimalRemovalsBuffered(targetRating, breakdown)

AdditionCandidate == calculateAdditions(targetRating, breakdown)

RemovalEdits == SumRemoved(RemovalCandidate.reviewsToRemove)

AdditionEdits == AdditionCandidate.reviewsToAdd.fiveStar

BufferedReturned == cpc = "returned" /\ revision = "buffered"

UndershootingRemovalRejected ==
    /\ BufferedReturned
    /\ RemovalEdits < AdditionEdits
    /\ RemovalCandidate.projectedRating < targetRating
    /\ plan = AdditionCandidate

\* Equally many edits on both sides, and at least one.
EditsTie == BufferedReturned /\ RemovalEdits = AdditionEdits /\ RemovalEdits > 0

\* The removal plan that the revision in use computes for the call at hand.
RemovalPlanInUse ==
    IF revision = "buffered"
    THEN calculateMinimalRemovalsBuffered(targetRating, breakdown)
    ELSE calculateMinimalRemovals(targetRating, breakdown)

\* The removal plan takes away every review of a distribution that had some.
RemovalExhausts ==
    /\ totalReviews(breakdown) > 0
    /\ SumRemoved(RemovalPlanInUse.reviewsToRemove) = totalReviews(breakdown)

\* C16: when the removal plan leaves no review at all, its projected rating is
\* 0 and the caller gets the additive alternative, a plan with strategy "add".
ExhaustedRemovalYieldsAdd ==
    (cpc = "returned" /\ RemovalExhausts)
    => /\ RemovalPlanInUse.projectedRating = 0
       /\ plan.strategy = "add"

\* The same for the buffered revision alone.
ExhaustedRemovalYieldsAddBuffered ==
    (BufferedReturned /\ RemovalExhausts)
    => /\ RemovalPlanInUse.projectedRating = 0
       /\ plan.strategy = "add"

\* The exhausted case has been returned by the buffered revision.
ExhaustedBufferedReturned == BufferedReturned /\ RemovalExhausts

\* C17: for the all-zero distribution and any target, either revision returns
\* (the call is never stuck and nothing in it raises), and the returned plan
\* removes no review of any tier and adds none.
EmptyDistributionNoEdits ==
    totalReviews(breakdown) = 0
    => /\ cpc = "ready" => ENABLED CalcNext
       /\ cpc = "returned"
             => /\ plan.reviewsToRemove = NoneRemoved
                /\ plan.reviewsToAdd.fiveStar = 0
                /\ plan.strategy \in {"remove", "add"}

\* C17 witness: the buffered revision has returned for the all-zero
\* distribution; its plan is the addition plan, whose projected rating is
\* 0 / 0.
EmptyDistributionReturned ==
    /\ BufferedReturned
    /\ totalReviews(breakdown) = 0
    /\ plan.strategy = "add"
    /\ plan.projectedIsNaN

\* C24: in a returned removal plan a tier is touched only when every lower
\* tier is exhausted (twoStar > 0 needs oneStar = one_star, threeStar > 0 needs
\* twoStar = two_star as well, fourStar > 0 needs threeStar = three_star as
\* well), and no tier loses more reviews than it had.
AscendingTierOrder ==
    (cpc = "returned" /\ plan.strategy = "remove")
    => LET r == plan.reviewsToRemove
           oneOut   == r.oneStar = breakdown.one_star
           twoOut   == r.twoStar = breakdown.two_star
           threeOut == r.threeStar = breakdown.three_star
       IN  /\ r.twoStar > 0 => oneOut
           /\ r.threeStar > 0 => oneOut /\ twoOut
           /\ r.fourStar > 0 => oneOut /\ twoOut /\ threeOut
           /\ r.oneStar \in 0 .. breakdown.one_star
           /\ r.twoStar \in 0 .. breakdown.two_star
           /\ r.threeStar \in 0 .. breakdown.three_star
           /\ r.fourStar \in 0 .. breakdown.four_star
           /\ r.fiveStar \in 0 .. breakdown.five_star

\* C24 witness: the current revision returned a plan that reaches into the
\* four-star tier of a distribution with reviews in all lower tiers and keeps
\* some four-star reviews.
FourStarTierReached ==
    /\ cpc = "returned"
    /\ revision = "current"
    /\ breakdown.one_star > 0 /\ breakdown.two_star > 0 /\ breakdown.three_star > 0
    /\ plan.reviewsToRemove.fourStar > 0
    /\ plan.reviewsToRemove.fourStar < breakdown.four_star

\* C26: the loops of calculateReviewsToRemove are bounded: the removal loop
\* runs at most as many iterations as the distribution has reviews (one review
\* goes per iteration), and the counter of the additive loop stops at 1000 at
\* the latest, also for a target that added five-star reviews never reach.
LoopsWithinBounds ==
    cpc = "returned"
    => /\ SumRemoved(RemovalPlanInUse.reviewsToRemove) <= totalReviews(breakdown)
       /\ revision = "buffered" => AdditionEdits <= 1000

\* The removal loop's bound alone, for both revisions, and the bound the
\* additive loop does keep.
LoopsTerminate ==
    cpc = "returned"
    => /\ SumRemoved(RemovalPlanInUse.reviewsToRemove) <= totalReviews(breakdown)
       /\ revision = "buffered" => AdditionEdits <= SafetyLimit + 1

\* The additive loop was ended by its break.
AdditionLoopBroken == BufferedReturned /\ AdditionEdits > SafetyLimit

\* C27: calculateReviewsToRemove is pure.  The step of a call leaves the five
\* counts of the caller's breakdown as they were and touches neither the
\* cache nor the throttler, and a second call with the breakdown and target of
\* a returned call yields a plan equal to the first one's.
CallFrame ==
    cpc = "ready" /\ cpc' = "returned"
    => /\ breakdown' = breakdown
       /\ UNCHANGED <<cacheVars, throttleVars>>

SecondCallEqualPlan ==
    cpc = "returned" /\ revision = "current"
    => calculateReviewsToRemove(DisplayedRating(breakdown), targetRating, breakdown) = plan

---------------------------------------------------------------------------
(* Claims about the cascading search                                       *)

\* An answered request that yielded nothing: it failed, or it found no business.
AttemptFailed(r) ==
    /\ r.response # Absent
    /\ (~r.response[1].ok \/ Len(r.response[1].items) = 0)

\* An answered request that yielded at least one business.
AttemptFound(r) ==
    /\ r.response # Absent
    /\ r.response[1].ok
    /\ Len(r.response[1].items) >= 1

\* The table entries whose term the query names.
MatchingTerms(query) ==
    {i \in 1 .. Len(categoryMappings) : TermMatches(query, i)}

\* C8: the strategies are tried strictly one after another, title, then
\* description, then category (one request per matching term, in table order):
\* a request is sent only after every earlier one has come back with nothing,
\* and the first one that yields at least one business ends the cascade with
\* that strategy's result.
CascadeSequential ==
    \A c \in SearchCalls :
        LET call == calls[c]
            rs   == call.requests
            n    == Len(rs)
        IN  /\ \A i \in 1 .. n :
                  /\ rs[i].searchType = (IF i = 1 THEN "title"
                                         ELSE IF i = 2 THEN "description"
                                         ELSE "category")
                  /\ i < n => AttemptFailed(rs[i])
                  /\ i > 2 => /\ rs[i].term \in 1 .. Len(categoryMappings)
                              /\ TermMatches(call.query, rs[i].term)
                  /\ i > 3 => rs[i - 1].term < rs[i].term
            /\ (n > 0 /\ rs[n].response = Absent) => call.pc = rs[n].searchType
            /\ (n > 0 /\ AttemptFound(rs[n]))
                  => /\ call.pc = "done"
                     /\ call.ret # Absent
                     /\ call.ret[1].searchType = rs[n].searchType
                     /\ call.ret[1].businesses = rs[n].response[1].items

\* C8 witness: title and description came back with nothing and the second
\* matching category request found a business, which ended the cascade.
CascadeEndedAtCategory ==
    \E c \in SearchCalls :
        LET rs == calls[c].requests
        IN  /\ calls[c].pc = "done"
            /\ Len(rs) = 4
            /\ AttemptFound(rs[4])
            /\ calls[c].ret[1].searchType = "category"

\* C9: a call that does not bypass the cache and finds an entry under its key
\* that has not expired (a cached empty result included) returns the cached
\* result and sends no upstream request.
CacheHitShortCircuits ==
    \A c \in SearchCalls :
        LET call == calls[c]
        IN  ( /\ call.pc # "idle"
              /\ ~call.bypassCache
              /\ call.looked # Absent
              /\ call.looked[1].entry # Absent
              /\ call.looked[1].at <= call.looked[1].entry[1].expiresAt )
            => /\ call.pc = "done"
               /\ call.requests = <<>>
               /\ call.ret = Some(call.looked[1].entry[1].data)

\* C9 witness: a call was answered from a cached empty result.
CachedEmptyResultServed ==
    \E c \in SearchCalls :
        LET call == calls[c]
        IN  /\ call.pc = "done"
            /\ ~call.bypassCache
            /\ call.looked # Absent
            /\ call.looked[1].entry # Absent
            /\ call.looked[1].at <= call.looked[1].entry[1].expiresAt
            /\ call.looked[1].entry[1].data = NoResult
            /\ call.requests = <<>>

\* C10: no upstream error leaves performCascadingSearch; a call whose every
\* request (title, description and each matching category) failed or found
\* nothing returns the empty result with searchType "none", and that result
\* is in the cache under the call's key for one hour when the call ends.
CascadeNeverThrows ==
    \A c \in SearchCalls :
        LET call == calls[c]
            rs   == call.requests
        IN  /\ ~call.threw
            /\ ( /\ call.pc = "done"
                 /\ rs # <<>>
                 /\ \A i \in 1 .. Len(rs) : AttemptFailed(rs[i]) )
               => /\ Len(rs) = 2 + Cardinality(MatchingTerms(call.query))
                  /\ call.ret = Some(NoResult)
                  /\ call.stored # Absent
                  /\ call.stored[1].data = NoResult
                  /\ call.stored[1].expiresAt = call.stored[1].timestamp + HourMs

\* C10 witness: every request of a call failed with an upstream error, the
\* category requests included, and the call returned the empty result.
EveryStrategyErrored ==
    \E c \in SearchCalls :
        LET rs == calls[c].requests
        IN  /\ calls[c].pc = "done"
            /\ Len(rs) = 4
            /\ \A i \in 1 .. Len(rs) : rs[i].response # Absent /\ ~rs[i].response[1].ok
            /\ calls[c].ret = Some(NoResult)

\* Every request of the invocation failed outright (none was answered at all).
EveryAttemptErrored(rs) ==
    /\ rs # <<>>
    /\ \A i \in 1 .. Len(rs) : rs[i].response # Absent /\ ~rs[i].response[1].ok

\* C11: a finished search whose every upstream request failed outright is
\* reported as a failure, and what the caller gets (the returned result, the
\* handler's response) differs from what it gets when every request succeeded
\* with zero results, which is the empty result and its response.
SearchFailureDistinguishable ==
    \A c \in SearchCalls :
        (calls[c].pc = "done" /\ EveryAttemptErrored(calls[c].requests))
        => /\ calls[c].ret # Some(NoResult)
           /\ handlerResponse(calls[c].ret) # handlerResponse(Some(NoResult))

\* A finished invocation that went upstream and returned: it wrote the cache.
WroteCache(call) == call.pc = "done" /\ call.requests # <<>> /\ call.ret # Absent

\* The time to live of the entry an invocation left under its key.
StoredTtl(call) == call.stored[1].expiresAt - call.stored[1].timestamp

\* C21: whenever performCascadingSearch writes the cache, what it stores is
\* what it returns, an empty result with the TTL of empty results and a
\* non-empty result with a strictly longer one.
FoundCachedLongerThanEmpty ==
    \A c \in SearchCalls :
        WroteCache(calls[c])
        => /\ calls[c].stored # Absent
           /\ calls[c].stored[1].data = calls[c].ret[1]
           /\ IF calls[c].ret[1].businesses = <<>>
              THEN StoredTtl(calls[c]) = EmptyTtl
              ELSE StoredTtl(calls[c]) > EmptyTtl

\* C21 witness: a description hit was written to the cache after the title
\* attempt found nothing.
FoundResultWritten ==
    \E c \in SearchCalls :
        /\ WroteCache(calls[c])
        /\ Len(calls[c].requests) = 2
        /\ calls[c].ret[1].businesses # <<>>
        /\ StoredTtl(calls[c]) = 2 * HourMs

\* An empty result was written to the cache.
EmptyResultWritten ==
    \E c \in SearchCalls :
        WroteCache(calls[c]) /\ calls[c].ret[1].businesses = <<>>

\* The cache key of the invocation that takes the step.
ActingKey(c) == IF calls[c].pc = "idle" THEN calls'[c].cacheKey ELSE calls[c].cacheKey

\* A step of an invocation leaves every entry but the one under its own key as
\* it was, and that key is the key of its own page.
PageStepFrame ==
    \A c \in SearchCalls :
        calls'[c] # calls[c]
        => /\ \A k \in (DOMAIN cache \cup DOMAIN cache') \ {ActingKey(c)} :
                  MapGet(cache', k) = MapGet(cache, k)
           /\ calls'[c].pc # "idle"
                 => calls'[c].cacheKey = SearchCacheKey(calls'[c].query,
                                             calls'[c].locationIdentifier, calls'[c].page)

\* What an invocation returns is of its own page: a non-empty result starts at
\* the offset of the page asked for, and a cache hit returns the entry that
\* lay under the key of that page.
PageResultOwn ==
    \A c \in SearchCalls :
        (calls[c].pc = "done" /\ calls[c].ret # Absent)
        => /\ calls[c].ret[1].businesses # <<>>
                 => calls[c].ret[1].currentOffset = RequestOffset(calls[c].page)
           /\ (calls[c].requests = <<>> /\ calls[c].looked # Absent)
                 => /\ calls[c].looked[1].entry # Absent
                    /\ calls[c].ret[1] = calls[c].looked[1].entry[1].data

\* C22: each page of a query is cached as its own entry: a call for page p
\* reads and writes only the entry under the key of page p and leaves every
\* other entry unchanged, and never returns what was cached for another page.
PagesCachedIndependently == []PageResultOwn /\ [][PageStepFrame]_vars

\* C22 witness: page 1 was answered from the cache while the entry of page 2
\* of the same query lay in the cache with another result.
PageServedBesideOtherPage ==
    \E c \in SearchCalls :
        LET other == SearchCacheKey(calls[c].query, calls[c].locationIdentifier, 2)
        IN  /\ calls[c].pc = "done"
            /\ calls[c].page = 1
            /\ calls[c].requests = <<>>
            /\ calls[c].ret # Absent
            /\ other \in DOMAIN cache
            /\ cache[other].data # calls[c].ret[1]
            /\ cache[other].data.businesses # <<>>

\* C23: every upstream request of performCascadingSearch comes after a
\* completed throttle() call of its own: at any moment the invocations have
\* sent no more requests than throttle() calls have completed.
UpstreamBehindThrottle ==
    \A c \in SearchCalls : Len(calls[c].requests) <= Len(completions)

\* The logical request of a search: the query and the location identifier,
\* both lower-cased and trimmed, and the page.
NormalizedRequest(r) ==
    <<toLowerCase(trim(r.query)), toLowerCase(trim(r.locationIdentifier)), r.page>>

\* C28: the cache key of a search identifies its logical request: no request
\* that differs from the one an invocation serves in its normalized query, its
\* location identifier or its page has the cache key the invocation reads and
\* writes.
SearchKeyIdentifiesRequest ==
    \A c \in SearchCalls :
        calls[c].pc # "idle"
        => \A other \in AmbiguousArgs :
               NormalizedRequest(other) # NormalizedRequest(calls[c])
               => SearchCacheKey(other.query, other.locationIdentifier, other.page)
                      # calls[c].cacheKey

\* An invocation was answered from the cache under a key that another logical
\* request has as well.
ServedUnderSharedKey ==
    \E c \in SearchCalls :
        /\ calls[c].pc = "done"
        /\ calls[c].requests = <<>>
        /\ calls[c].ret # Absent
        /\ \E other \in AmbiguousArgs :
               /\ NormalizedRequest(other) # NormalizedRequest(calls[c])
               /\ SearchCacheKey(other.query, other.locationIdentifier, other.page)
                      = calls[c].cacheKey

\* The step with which an invocation ends after every one of its upstream
\* requests has failed leaves a non-empty, unexpired entry under its key
\* non-empty.
FailedSearchKeepsFound ==
    \A c \in SearchCalls :
        LET key == calls[c].cacheKey
            fin == calls'[c]
        IN  ( /\ calls[c].pc \notin {"idle", "done"}
              /\ fin.pc = "done"
              /\ \A i \in 1..Len(fin.requests) : ~fin.requests[i].response[1].ok
              /\ key \in DOMAIN cache
              /\ ~Expired(cache[key], now)
              /\ cache[key].data.businesses # <<>> )
            => /\ key \in DOMAIN cache'
               /\ cache'[key].data.businesses # <<>>

\* C30: a performCascadingSearch call whose upstream requests all fail never
\* replaces an unexpired non-empty cache entry of its key with an empty
\* result, with bypassCache = true as well.
FailedSearchNeverEmptiesEntry == [][FailedSearchKeepsFound]_vars

\* After a refresh that failed upstream, a lookup without bypass is answered
\* from the cache with the empty result.
EmptyServedAfterFailedRefresh ==
    \E c \in SearchCalls :
        /\ calls[c].pc = "done"
        /\ ~calls[c].bypassCache
        /\ calls[c].requests = <<>>
        /\ calls[c].ret # Absent
        /\ calls[c].ret[1].businesses = <<>>
        /\ now = StartTime

---------------------------------------------------------------------------
(* Claims about the Nominatim callers                                      *)

\* C12: whatever the interleaving of geocodePostalCode, geocodeCity and
\* searchCities calls, any two requests sent to Nominatim are at least
\* minInterval apart.
NominatimSpacing ==
    \A i, j \in 1 .. Len(released) :
        i < j => released[j].at - released[i].at >= minInterval

---------------------------------------------------------------------------
(* Claims about the cache module's lifecycle                               *)

\* The instances something still refers to: the exported one and those the
\* running timers sweep.
InstancesInUse == {CurrentInstance} \cup {timers[t].instance : t \in 1 .. Len(timers)}

\* C13: however often the module's top-level code has run, one cache instance
\* is in use, one sweep timer is running, and the timer sweeps the instance
\* that importers read and write.
SingletonLifecycle ==
    loads > 0
    => /\ Cardinality(InstancesInUse) = 1
       /\ Len(timers) = 1
       /\ timers[1].instance = CurrentInstance

---------------------------------------------------------------------------
(* Claims about the cache keys                                             *)

StartsWith(s, p) == Len(s) >= Len(p) /\ SubSeq(s, 1, Len(p)) = p

\* The class prefixes as the claim names them.
GeoPrefix == <<"g", "e", "o", ":">>

SearchPrefix == <<"s", "e", "a", "r", "c", "h", ":">>

BizPrefix == <<"b", "i", "z", ":">>

RatingPrefix == <<"r", "a", "t", "i", "n", "g", ":">>

\* C18: the keys that generateGeocodingKey(x), generateBusinessSearchKey(x, y),
\* generateBusinessDataKey(x, y) and generateRatingKey(z) return are pairwise
\* different, and each begins with the prefix of its class and with the prefix
\* of no other class.
KeyClassesDisjoint ==
    builtKeys # Absent
    => LET k == builtKeys[1]
           own == [geo |-> GeoPrefix, search |-> SearchPrefix,
                   biz |-> BizPrefix, rating |-> RatingPrefix]
       IN  \A c, d \in DOMAIN own :
               /\ StartsWith(k[c], own[d]) <=> c = d
               /\ c # d => k[c] # k[d]

\* C18 witness: keys were built from an argument that itself spells the prefix
\* of another class and from one that the builders lower-case and trim.
KeysBuiltFromPrefixLikeArgs ==
    /\ builtKeys # Absent
    /\ keyArgs.x = SearchPrefix
    /\ keyArgs.y = <<" ", "B">>
    /\ keyArgs.z = GeoPrefix
    /\ builtKeys[1].biz = BizPrefix \o SearchPrefix \o <<":", "b">>

---------------------------------------------------------------------------
(* Claims about the callers of the optimizer                               *)

\* C19: every call of calculateReviewsToRemove that a page makes comes after
\* validateTargetRating(target, currentRating) was evaluated and returned no
\* error, so that targetRating > currentRating holds at the call.
OptimizerOnlyAfterValidation ==
    \A c \in optimizerCalls :
        /\ c.validated
        /\ c.targetRating > c.currentRating

\* The same for the calls that Home's handleCalculate makes.
HomeCallsValidated ==
    \A c \in optimizerCalls :
        c.site = "handleCalculate" => c.validated /\ c.targetRating > c.currentRating

\* RatingControlsColumn's handleTargetRatingChange has called the optimizer
\* with a target equal to the current rating.
TargetEqualToCurrentSubmitted ==
    \E c \in optimizerCalls :
        c.site = "handleTargetRatingChange" /\ c.targetRating = c.currentRating

\* Scalar ratings a caller could hand in with a call's breakdown and target.
OtherRatings(c) == {0, 1000, 3300, 4000, 4500, 5000, DisplayedRating(c.breakdown)}

\* C20: the plan of a call is the plan of every call with the same breakdown
\* and target, whatever rating is handed in as currentRating; two calls made
\* with the same breakdown and target returned identical plans.
PlanIgnoresCurrentRating ==
    /\ \A c \in optimizerCalls : \A r \in OtherRatings(c) :
           calculateReviewsToRemove(r, c.targetRating, c.breakdown) = c.result
    /\ \A c, d \in optimizerCalls :
           (c.breakdown = d.breakdown /\ c.targetRating = d.targetRating)
           => c.result = d.result

\* C20 witness: handleCalculate has called the optimizer with slider values
\* whose average is not the rating it passed along, and the plan removes
\* reviews.
CalledWithDisagreeingRating ==
    \E c \in optimizerCalls :
        /\ c.site = "handleCalculate"
        /\ c.currentRating # DisplayedRating(c.breakdown)
        /\ SumRemoved(c.result.reviewsToRemove) > 0

---------------------------------------------------------------------------
(* Claims about the /api/rating handler                                    *)

\* C29: a rating answered from the cache was fetched for the business of the
\* request, and no listing of another business (another cid and title) has
\* the cache key a request reads and writes, with or without a place_id.
RatingHitOfSameBusiness ==
    /\ (ratingCall.pc = "responded" /\ ratingCall.fromCache)
       => ratingCall.response[1].data[1].rating
              \in UpstreamRatings(RequestedBusiness(ratingCall))
    /\ ratingCall.cacheKey # <<>>
       => \A other \in Listings :
              (other.cid # ratingCall.listing.cid /\ other.title # ratingCall.listing.title)
              => generateRatingKey(TemplateText(other.place_id)) # ratingCall.cacheKey

\* The same for the listings that carry a place_id.
RatingHitOfSamePlace ==
    (ratingCall.pc = "responded" /\ ratingCall.fromCache
        /\ ratingCall.listing.place_id # Absent)
    => ratingCall.response[1].data[1].rating
           \in UpstreamRatings(RequestedBusiness(ratingCall))

\* A listing without place_id was answered with the cached rating of another
\* business.
OtherBusinessServed ==
    /\ ratingCall.pc = "responded"
    /\ ratingCall.fromCache
    /\ ratingCall.workflow = "listing"
    /\ ratingCall.response[1].data[1].rating
           \notin UpstreamRatings(RequestedBusiness(ratingCall))

=============================================================================
